---- MODULE Spec2Model ----
(***************************************************************************)
(* Model of the AI insight gateway of githubCapture (src-tauri/src):       *)
(*   ai.rs          summarize_repo, summarize_and_cache,                    *)
(*                  summarize_with_api_key, save_cache, get_cached_insight  *)
(*   llm/openai.rs  OpenAIProvider::handle_stream_response (producer task)  *)
(*   llm/mod.rs     LLMFactory::create_provider, StreamChunk                *)
(*   config.rs      ConfigManager (persisted AppConfig), the shared mutex   *)
(*   models.rs      AppConfig, ModelConfig and their operations             *)
(*                                                                         *)
(* Texts are sequences of one-character strings, so that trim(), len() and  *)
(* sanitize_filename() are computed character by character as the code      *)
(* does.  Every modelled character is ASCII: len() in bytes equals Len.     *)
(***************************************************************************)
EXTENDS Integers, Sequences, FiniteSets, TLC

VARIABLES
    cache,          \* files under <app_data_dir>/ai_insights: path -> None or Some(text)
    store,          \* settings.json: the legacy "openai_api_key" and the "app_config" key
    lock,           \* holder of the ConfigManagerState mutex
    pc,             \* position of the summarize_repo request
    req,            \* arguments of the summarize_repo request
    mode,           \* which branch of summarize_repo runs the request
    provider,       \* vendor of the adapter built by LLMFactory::create_provider
    result,         \* what summarize_repo returned
    sink,           \* payloads sent on the caller's on_event channel, in order
    full_insight,   \* the accumulation buffer of summarize_and_cache
    pre_cache,      \* the cache as it was when the request was issued
    fs_write,       \* outcome of the fs::write the request attempted, if any
    network_calls,  \* metadata fetches (README, tree, manifest) made by the request
    provider_calls, \* chat_completion calls made on a provider by the request
    http_status,    \* status of the GET /models response the command received, if any
    producer,       \* position of the task spawned by handle_stream_response
    chan,           \* the mpsc channel between the producer task and its receiver
    rx_open,        \* whether the receiver half of the channel is still alive
    events_read,    \* inbound events the producer has taken from the EventSource
    sent,           \* chunks the producer has put into the channel, in order
    observed,       \* chunks a consumer that drains the channel has received
    h_pc,           \* position of the cache round-trip scenario
    h_repo,         \* identity used by the cache round-trip scenario
    h_text,         \* content handed to save_cache by the scenario
    h_write_ok,     \* whether the scenario's fs::write succeeded
    h_prev,         \* what get returned before the put
    h_got,          \* what get returned after the put
    now,            \* the clock read by Utc::now()
    startup,        \* the last ConfigManager::new: the store before and after it
    cpc,            \* position of each caller's configuration command
    cmd,            \* the configuration command each caller is running
    loaded,         \* the AppConfig each caller's command got from load_config
    issued,         \* configuration commands invoked so far
    serial,         \* the store had the completed commands run one after the other
    last_op,        \* the command completed last, until the next one starts: what it
                    \* loaded, what it saved and returned
    peer,           \* a second command running alongside the summarize_repo request
    writers,        \* the fs::write calls that succeeded, in order: who wrote what
    source_len,     \* events the EventSource delivers at most before it ends
    send_failed_at, \* events the producer had read when a send of its first failed
    inbound,        \* the events the producer has taken from the EventSource, in order
    url,            \* a call of OpenAIProvider::build_endpoint_url
    batch,          \* a call of the check_insights_batch command
    call,           \* a call of one operation on its own: its input and its output
    windows         \* per vendor, the end of the window of the update_model_cache
                    \* that stored its list last: its instant plus its cache_hours

vars == <<cache, store, lock, pc, req, mode, provider, result, sink,
          full_insight, pre_cache, fs_write, network_calls, provider_calls,
          http_status, producer, chan, rx_open,
          events_read, sent, observed, h_pc, h_repo, h_text, h_write_ok,
          h_prev, h_got, now, startup, cpc, cmd, loaded, issued, serial,
          last_op, peer, writers, source_len, send_failed_at, inbound, url,
          batch, call, windows>>

request_vars == <<pc, req, mode, provider, result, sink, full_insight,
                  pre_cache, fs_write, network_calls, provider_calls,
                  http_status, lock>>
adapter_vars == <<producer, chan, rx_open, events_read, sent>>
harness_vars == <<h_pc, h_repo, h_text, h_write_ok, h_prev, h_got>>
config_vars == <<now, startup, cpc, cmd, loaded, issued, serial, last_op,
                 windows>>
peer_vars == <<peer, writers>>
task_vars == <<source_len, send_failed_at, inbound>>
call_vars == <<url, batch, call>>
summarize_vars == <<pc, req, mode, provider, result, sink, full_insight,
                    pre_cache, fs_write, network_calls, provider_calls,
                    http_status>>

----------------------------------------------------------------------------
(* Bounds of the model *)

\* longest inbound event sequence the EventSource delivers before it ends
MaxEvents == 3
\* longest content handed to save_cache in the cache round-trip scenario
MaxTextLen == 11

----------------------------------------------------------------------------
(* Texts and options *)

\* Option<T>: None, or Some(x)
None == <<>>
Some(x) == <<x>>
IsSome(o) == o # <<>>
Unwrap(o) == o[1]

IsWhitespace(c) == c \in {" ", "\n", "\t"}

RECURSIVE TrimStart(_)
TrimStart(s) ==
    IF s = <<>> THEN s
    ELSE IF IsWhitespace(Head(s)) THEN TrimStart(Tail(s)) ELSE s

RECURSIVE TrimEnd(_)
TrimEnd(s) ==
    IF s = <<>> THEN s
    ELSE IF IsWhitespace(s[Len(s)]) THEN TrimEnd(SubSeq(s, 1, Len(s) - 1)) ELSE s

\* str::trim
Trim(s) == TrimEnd(TrimStart(s))

\* save_cache refuses content whose trimmed length is below this
MinCacheLen == 10

----------------------------------------------------------------------------
(* Repository identities and cache paths *)

IsAlphanumeric(c) == c \in {"F", "B", "f", "o", "b", "a", "r"}

ToLowercase(c) == IF c = "F" THEN "f" ELSE IF c = "B" THEN "b" ELSE c

\* A sanitizer that filters but does not fold case
RECURSIVE sanitize_filename_keep_case(_)
sanitize_filename_keep_case(name) ==
    IF name = <<>> THEN <<>>
    ELSE IF IsAlphanumeric(Head(name)) \/ Head(name) = "-" \/ Head(name) = "_"
         THEN <<Head(name)>> \o sanitize_filename_keep_case(Tail(name))
         ELSE sanitize_filename_keep_case(Tail(name))

RECURSIVE sanitize_filename(_)
sanitize_filename(name) ==
    IF name = <<>> THEN <<>>
    ELSE IF IsAlphanumeric(Head(name)) \/ Head(name) = "-" \/ Head(name) = "_"
         THEN <<ToLowercase(Head(name))>> \o sanitize_filename(Tail(name))
         ELSE sanitize_filename(Tail(name))

\* the file name under <app_data_dir>/ai_insights
get_cache_path(repo) ==
    sanitize_filename(repo.author) \o <<"_">> \o sanitize_filename(repo.name)
        \o <<".", "m", "d">>

\* RepoInfo values handed to the commands
RepoUpper == [author |-> <<"F", "o", "o">>, name |-> <<"B", "a", "r">>, url |-> "url1"]
RepoLower == [author |-> <<"f", "o", "o">>, name |-> <<"b", "a", "r">>, url |-> "url2"]
RepoHyphen ==
    [author |-> <<"f", "o", "-", "o", "!">>, name |-> <<"b", " ", "a", "r">>,
     url |-> "url3"]
RepoSpaced ==
    [author |-> <<"f", "o", " ", "o", "!">>, name |-> <<"b", " ", "a", "r">>,
     url |-> "url4"]

Repos == {RepoUpper, RepoLower, RepoHyphen, RepoSpaced}

CachePaths == {get_cache_path(r) : r \in Repos}

----------------------------------------------------------------------------
(* Insight Cache: cache[path] is None when no file exists, else Some(text) *)

get_cached_insight_internal(c, repo) ==
    LET cache_path == get_cache_path(repo)
    IN  IF IsSome(c[cache_path]) THEN c[cache_path] ELSE None

rejects_content_only_empty(content) == Trim(content) = <<>>

\* the early return of save_cache: content that is empty or too short once trimmed
rejects_content(content) ==
    LET trimmed_content == Trim(content)
    IN  trimmed_content = <<>> \/ Len(trimmed_content) < MinCacheLen

save_cache_writes_trimmed(c, repo, content, write_ok) ==
    IF rejects_content(content) THEN c
    ELSE IF write_ok THEN [c EXCEPT ![get_cache_path(repo)] = Some(Trim(content))]
         ELSE c

\* A save that leaves an existing record alone
save_cache_keep_existing(c, repo, content, write_ok) ==
    IF rejects_content(content) THEN c
    ELSE IF write_ok /\ ~IsSome(c[get_cache_path(repo)])
         THEN [c EXCEPT ![get_cache_path(repo)] = Some(content)]
         ELSE c

\* the cache after save_cache(repo, content); write_ok is whether fs::write
\* succeeds (a failed write is logged and leaves the file as it was)
save_cache(c, repo, content, write_ok) ==
    IF rejects_content(content) THEN c
    ELSE IF write_ok THEN [c EXCEPT ![get_cache_path(repo)] = Some(content)]
         ELSE c

\* the successful writes so far, after save_cache(repo, content) called by `by`
written(log, by, repo, content, write_ok) ==
    IF ~rejects_content(content) /\ write_ok
    THEN Append(log, [by |-> by, path |-> get_cache_path(repo), text |-> content])
    ELSE log

\* a record left by an earlier successful generation
OldInsight == <<"O", "l", "d", " ", "i", "n", "s", "i", "g", "h", "t">>

\* the cache directories the application can start from
InitialCaches == [CachePaths -> {None, Some(OldInsight)}]

----------------------------------------------------------------------------
(* Unified stream events *)

Text(t) == [type |-> "Text", data |-> t]
Error(msg) == [type |-> "Error", data |-> msg]
Done == [type |-> "Done", data |-> <<>>]

\* e.to_string() of a serde_json error and of an EventSource error
ParseErrorText == <<"expected value">>
TransportErrorText == <<"transport error">>

\* mpsc::channel(100)
ChannelCapacity == 100

----------------------------------------------------------------------------
(* Inbound server-sent events *)

Hello == <<"H", "e", "l", "l", "o">>
World == <<" ", "W", "o", "r", "l", "d">>

\* delta texts the provider streams
Deltas == {Hello, World}

\* message.data: the terminator, a JSON value (with its choices[0].delta.content
\* when that is a string), or something that is not JSON
DoneMarker == [form |-> "[DONE]", content |-> None]
Json(content) == [form |-> "json", content |-> content]
Malformed == [form |-> "malformed", content |-> None]

MessageData ==
    {DoneMarker, Malformed, Json(None), Json(Some(<<>>))}
        \cup {Json(Some(t)) : t \in Deltas}

Message(d) == [kind |-> "Message", data |-> d]
Open == [kind |-> "Open", data |-> Malformed]
SourceError == [kind |-> "Err", data |-> Malformed]

\* what source.next() can yield as Some(event)
InboundEvents == {Message(d) : d \in MessageData} \cup {Open, SourceError}

\* serde_json::from_str::<Value>(&message.data)
from_str(data) ==
    IF data.form = "json" THEN [ok |-> TRUE, value |-> data]
    ELSE [ok |-> FALSE, value |-> data]

\* value["choices"][0]["delta"]["content"].as_str()
delta_content(value) == value.content

\* A loop that forwards every string delta, the empty one included
on_event_emitting_empty(event) ==
    IF event.kind = "Message"
    THEN IF event.data = DoneMarker
         THEN [send |-> Some(Done), break |-> TRUE]
         ELSE IF event.data.form = "json"
              THEN IF IsSome(event.data.content)
                   THEN [send |-> Some(Text(Unwrap(event.data.content))),
                         break |-> FALSE]
                   ELSE [send |-> None, break |-> FALSE]
              ELSE [send |-> Some(Error(ParseErrorText)), break |-> TRUE]
    ELSE IF event.kind = "Err"
         THEN [send |-> Some(Error(TransportErrorText)), break |-> TRUE]
         ELSE [send |-> None, break |-> FALSE]

\* A loop that reports a malformed event or a source error and reads on
on_event_reading_on(event) ==
    IF event.kind = "Message"
    THEN IF event.data = DoneMarker
         THEN [send |-> Some(Done), break |-> TRUE]
         ELSE IF event.data.form = "json"
              THEN IF IsSome(event.data.content) /\ Unwrap(event.data.content) # <<>>
                   THEN [send |-> Some(Text(Unwrap(event.data.content))),
                         break |-> FALSE]
                   ELSE [send |-> None, break |-> FALSE]
              ELSE [send |-> Some(Error(ParseErrorText)), break |-> FALSE]
    ELSE IF event.kind = "Err"
         THEN [send |-> Some(Error(TransportErrorText)), break |-> FALSE]
         ELSE [send |-> None, break |-> FALSE]

\* One turn of the while-let loop on Some(event): the chunk it sends, if any,
\* and whether it breaks out of the loop.
on_event(event) ==
    IF event.kind = "Message"
    THEN IF event.data = DoneMarker
         THEN [send |-> Some(Done), break |-> TRUE]
         ELSE LET parsed == from_str(event.data)
              IN  IF parsed.ok
                  THEN LET content == delta_content(parsed.value)
                       IN  IF IsSome(content) /\ Unwrap(content) # <<>>
                           THEN [send |-> Some(Text(Unwrap(content))),
                                 break |-> FALSE]
                           ELSE [send |-> None, break |-> FALSE]
                  ELSE [send |-> Some(Error(ParseErrorText)), break |-> TRUE]
    ELSE IF event.kind = "Err"
         THEN [send |-> Some(Error(TransportErrorText)), break |-> TRUE]
         ELSE [send |-> None, break |-> FALSE]

\* A send that waits for room and never learns that the receiver is gone
CanSend_waiting_on_closed(ch, open) == open /\ Len(ch) < ChannelCapacity

\* A channel without a capacity
CanSend_always(ch, open) == TRUE

\* tx.send(chunk).await can complete: the receiver is gone (the send fails at
\* once and the failure is discarded) or the channel has room
CanSend(ch, open) == ~open \/ Len(ch) < ChannelCapacity

\* A channel that hands out the newest chunk first
Send_newest_first(ch, open, chunk) == IF open THEN <<chunk>> \o ch ELSE ch

\* the channel after `let _ = tx.send(chunk).await`
Send(ch, open, chunk) == IF open THEN Append(ch, chunk) ELSE ch

\* the events the producer had read when tx.send first returned Err, once a
\* send has been made at `read` events with the receiver open or gone
first_failure(failed_at, open, read) ==
    IF ~open /\ ~IsSome(failed_at) THEN Some(read) ELSE failed_at

----------------------------------------------------------------------------
(* The task spawned by handle_stream_response *)

\* source.next() yields Some(event)
ProducerEvent(event) ==
    /\ producer = "running"
    /\ events_read < source_len
    /\ LET turn == on_event(event)
       IN  /\ IF IsSome(turn.send)
              THEN /\ CanSend(chan, rx_open)
                   /\ chan' = Send(chan, rx_open, Unwrap(turn.send))
                   /\ sent' = IF rx_open THEN Append(sent, Unwrap(turn.send))
                              ELSE sent
                   /\ send_failed_at' = first_failure(send_failed_at, rx_open,
                                                      events_read + 1)
              ELSE UNCHANGED <<chan, sent, send_failed_at>>
           /\ producer' = IF turn.break THEN "after_loop" ELSE "running"
    /\ events_read' = events_read + 1
    /\ inbound' = Append(inbound, event)
    /\ UNCHANGED <<rx_open, observed, cache, store, request_vars, harness_vars,
                   peer_vars, config_vars, source_len, call_vars>>

\* source.next() yields None: the event source has ended
ProducerSourceEnded ==
    /\ producer = "running"
    /\ producer' = "after_loop"
    /\ UNCHANGED <<chan, sent, events_read, rx_open, observed, cache, store,
                   request_vars, harness_vars, peer_vars, config_vars, task_vars,
                   call_vars>>

\* the chunk sent after the loop, before the task ends and drops tx
final_chunk == Some(Done)

ProducerFinish ==
    /\ producer = "after_loop"
    /\ IF IsSome(final_chunk)
       THEN /\ CanSend(chan, rx_open)
            /\ chan' = Send(chan, rx_open, Unwrap(final_chunk))
            /\ sent' = IF rx_open THEN Append(sent, Unwrap(final_chunk)) ELSE sent
            /\ send_failed_at' = first_failure(send_failed_at, rx_open, events_read)
       ELSE UNCHANGED <<chan, sent, send_failed_at>>
    /\ producer' = "exited"
    /\ UNCHANGED <<events_read, rx_open, observed, cache, store, request_vars,
                   harness_vars, peer_vars, config_vars, source_len, inbound,
                   call_vars>>

----------------------------------------------------------------------------
(* A consumer that reads the adapter's channel until it closes *)

\* stream.recv() yields Some(chunk)
DrainRecv ==
    /\ pc = "drain"
    /\ chan # <<>>
    /\ observed' = Append(observed, Head(chan))
    /\ chan' = Tail(chan)
    /\ UNCHANGED <<producer, rx_open, events_read, sent, cache, store,
                   request_vars, harness_vars, peer_vars, config_vars, task_vars,
                   call_vars>>

\* stream.recv() yields None: the channel is empty and tx has been dropped
DrainClosed ==
    /\ pc = "drain"
    /\ chan = <<>>
    /\ producer = "exited"
    /\ pc' = "drained"
    /\ UNCHANGED <<adapter_vars, observed, cache, store, req, mode, provider,
                   result, sink, full_insight, pre_cache, fs_write, network_calls,
                   provider_calls, http_status, lock, harness_vars, peer_vars,
                   config_vars, task_vars,
                   call_vars>>

\* the consumer stops consuming: it drops the receiver, and with it whatever
\* the channel still holds
DrainDrop ==
    /\ pc = "drain"
    /\ rx_open' = FALSE
    /\ chan' = <<>>
    /\ pc' = "dropped"
    /\ UNCHANGED <<producer, events_read, sent, observed, cache, store, req, mode,
                   provider, result, sink, full_insight, pre_cache, fs_write,
                   network_calls, provider_calls, http_status, lock, harness_vars,
                   peer_vars, config_vars, task_vars, call_vars>>

----------------------------------------------------------------------------
(* Command arguments and the persisted configuration *)

AnyRepo == CHOOSE r \in Repos : TRUE

NoRequest == [repo |-> AnyRepo, api_key |-> None, model_config_id |-> None,
              deep_context |-> FALSE, force_refresh |-> FALSE]

\* ModelConfig::new at instant t (enabled, created_at = updated_at = now)
ModelConfig_new(id, name, vendor, api_base_url, api_key, default_model, t) ==
    [id |-> id, name |-> name, provider |-> vendor,
     api_base_url |-> api_base_url, api_key |-> api_key,
     default_model |-> default_model, enabled |-> TRUE,
     created_at |-> t, updated_at |-> t]

\* the ModelConfigurations held by the persisted AppConfig
StoredConfigs ==
    << ModelConfig_new("cfg-openai", "OpenAI", "OpenAI",
                       "https://api.openai.com/v1", "sk-key", "gpt-4o-mini", 0),
       ModelConfig_new("cfg-anthropic", "Claude", "Anthropic",
                       "https://api.anthropic.com", "sk-ant", "claude-3-haiku", 0) >>

\* the keys of AppConfig.model_cache that the modelled vendors use
CacheKeys == {"openai", "anthropic"}

\* model_cache with no entry
EmptyModelCache == [k \in CacheKeys |-> None]

\* AppConfig::default()
AppConfig_default ==
    [active_model_config_id |-> None, model_configs |-> <<>>,
     model_cache |-> EmptyModelCache, cache_expires_at |-> None]

InitAppConfig ==
    [AppConfig_default EXCEPT !.active_model_config_id = Some("cfg-openai"),
                              !.model_configs = StoredConfigs]

\* settings.json of an installation already in the new format
InitStore == [openai_api_key |-> None, app_config |-> Some(InitAppConfig)]

\* ConfigManager::load_config: the stored AppConfig, or the default one
load_config(st) ==
    IF IsSome(st.app_config) THEN Unwrap(st.app_config) ELSE AppConfig_default

\* ConfigManager::save_config: the "app_config" key is set and the store saved
save_config(st, config) == [st EXCEPT !.app_config = Some(config)]

\* ConfigManager::get_all_model_configs
get_all_model_configs(st) == load_config(st).model_configs

----------------------------------------------------------------------------
(* The configuration set and the Config Store facade *)

\* AppConfig::set_active_config: the config afterwards and the bool returned
set_active_config(config, id) ==
    IF \E i \in 1..Len(config.model_configs) : config.model_configs[i].id = id
    THEN [config |-> [config EXCEPT !.active_model_config_id = Some(id)],
          ok |-> TRUE]
    ELSE [config |-> config, ok |-> FALSE]

\* AppConfig::add_config
add_config(config, model_config) ==
    [config EXCEPT !.model_configs = Append(@, model_config)]

\* An update that also takes the id from the name it is given
update_renaming_id(mc, updates, t) ==
    [mc EXCEPT !.name = IF IsSome(updates.name) THEN Unwrap(updates.name) ELSE @,
               !.id = IF IsSome(updates.name) THEN Unwrap(updates.name) ELSE @,
               !.updated_at = t]

\* ModelConfig::update at instant t
update(mc, updates, t) ==
    [mc EXCEPT
        !.name = IF IsSome(updates.name) THEN Unwrap(updates.name) ELSE @,
        !.provider = IF IsSome(updates.provider) THEN Unwrap(updates.provider) ELSE @,
        !.api_base_url = IF IsSome(updates.api_base_url)
                         THEN Unwrap(updates.api_base_url) ELSE @,
        !.api_key = IF IsSome(updates.api_key) THEN Unwrap(updates.api_key) ELSE @,
        !.default_model = IF IsSome(updates.default_model)
                          THEN Unwrap(updates.default_model) ELSE @,
        !.enabled = IF IsSome(updates.enabled) THEN Unwrap(updates.enabled) ELSE @,
        !.updated_at = t]

\* model_configs.iter_mut().find(|c| c.id == id): index of the first match, or 0
first_with_id(configs, id) ==
    IF \E i \in 1..Len(configs) : configs[i].id = id
    THEN CHOOSE i \in 1..Len(configs) :
            /\ configs[i].id = id
            /\ \A j \in 1..(i - 1) : configs[j].id # id
    ELSE 0

\* AppConfig::update_config
update_config(config, id, updates, t) ==
    LET i == first_with_id(config.model_configs, id)
    IN  IF i # 0
        THEN [config |-> [config EXCEPT !.model_configs[i] = update(@, updates, t)],
              ok |-> TRUE]
        ELSE [config |-> config, ok |-> FALSE]

\* A removal that leaves the active id as it is
remove_config_keeping_active(config, id) ==
    LET kept == SelectSeq(config.model_configs, LAMBDA c : c.id # id)
    IN  [config |-> [config EXCEPT !.model_configs = kept],
         ok |-> Len(kept) < Len(config.model_configs)]

\* AppConfig::remove_config
remove_config(config, id) ==
    LET kept == SelectSeq(config.model_configs, LAMBDA c : c.id # id)
        removed == Len(kept) < Len(config.model_configs)
    IN  IF removed
        THEN [config |->
                 [config EXCEPT
                     !.model_configs = kept,
                     !.active_model_config_id =
                         IF @ = Some(id) THEN None ELSE @],
              ok |-> TRUE]
        ELSE [config |-> [config EXCEPT !.model_configs = kept], ok |-> FALSE]

\* AppConfig::update_cache_expiry at instant t
update_cache_expiry(config, hours, t) ==
    [config EXCEPT !.cache_expires_at = Some(t + hours)]

\* An expiry test that still serves the lists at the expiry instant itself
is_cache_expired_after(config, t) ==
    IF IsSome(config.cache_expires_at)
    THEN t > Unwrap(config.cache_expires_at)
    ELSE TRUE

\* AppConfig::is_cache_expired at instant t
is_cache_expired(config, t) ==
    IF IsSome(config.cache_expires_at)
    THEN t >= Unwrap(config.cache_expires_at)
    ELSE TRUE

\* the model_cache key of a vendor
cache_key(vendor) == IF vendor = "OpenAI" THEN "openai" ELSE "anthropic"

\* what a facade operation returns: a bool or unit, or an optional model list
Returned(ok, models) == [ok |-> ok, models |-> models]

\* Facade operations on the AppConfig that load_config returned, at instant t:
\* the config to save, whether save_config is called, and the value returned

set_active_model_config(config, config_id) ==
    LET r == set_active_config(config, config_id)
    IN  [config |-> r.config, save |-> r.ok, ret |-> Returned(r.ok, None)]

add_model_config(config, model_config) ==
    [config |-> add_config(config, model_config), save |-> TRUE,
     ret |-> Returned(TRUE, None)]

update_model_config(config, config_id, updates, t) ==
    LET r == update_config(config, config_id, updates, t)
    IN  [config |-> r.config, save |-> r.ok, ret |-> Returned(r.ok, None)]

delete_model_config(config, config_id) ==
    LET r == remove_config(config, config_id)
    IN  [config |-> r.config, save |-> r.ok, ret |-> Returned(r.ok, None)]

update_model_cache(config, vendor, models, cache_hours, t) ==
    [config |-> update_cache_expiry(
                    [config EXCEPT !.model_cache[cache_key(vendor)] = Some(models)],
                    cache_hours, t),
     save |-> TRUE, ret |-> Returned(TRUE, None)]

get_cached_models(config, vendor, t) ==
    [config |-> config, save |-> FALSE,
     ret |-> IF is_cache_expired(config, t)
             THEN Returned(TRUE, None)
             ELSE Returned(TRUE, config.model_cache[cache_key(vendor)])]

clear_model_cache(config) ==
    [config |-> [config EXCEPT !.model_cache = EmptyModelCache,
                               !.cache_expires_at = None],
     save |-> TRUE, ret |-> Returned(TRUE, None)]

\* the operation a command record names, applied to a loaded config
apply_command(c, config, t) ==
    CASE c.op = "set_active_model_config" ->
            set_active_model_config(config, c.config_id)
      [] c.op = "save_model_config" -> add_model_config(config, c.model_config)
      [] c.op = "update_model_config" ->
            update_model_config(config, c.config_id, c.updates, t)
      [] c.op = "delete_model_config" -> delete_model_config(config, c.config_id)
      [] c.op = "update_model_cache" ->
            update_model_cache(config, c.vendor, c.models, c.cache_hours, t)
      [] c.op = "get_cached_models" -> get_cached_models(config, c.vendor, t)
      [] OTHER -> clear_model_cache(config)

\* the store after one whole command: load_config, the operation, save_config
run_command(st, c, t) ==
    LET r == apply_command(c, load_config(st), t)
    IN  IF r.save THEN save_config(st, r.config) ELSE st

----------------------------------------------------------------------------
(* First-run migration *)

\* the JSON value under the legacy "openai_api_key" key
JsonString(text) == [is_str |-> TRUE, text |-> text]
JsonNotString == [is_str |-> FALSE, text |-> ""]

\* Value::as_str
as_str(value) == IF value.is_str THEN Some(value.text) ELSE None

\* ModelConfig::default_openai at instant t (the id is a fresh UUID)
default_openai(api_key, t) ==
    ModelConfig_new("cfg-migrated", "OpenAI (default)", "OpenAI",
                    "https://api.openai.com/v1", api_key, "gpt-4o-mini", t)

\* A test that looks at the legacy key only
needs_migration_legacy_only(st) == IsSome(st.openai_api_key)

\* ConfigManager::needs_migration
needs_migration(st) ==
    LET old_key_exists == IsSome(st.openai_api_key)
        new_config_exists == IsSome(st.app_config)
    IN  old_key_exists /\ ~new_config_exists

\* ConfigManager::migrate_from_old_format at instant t
migrate_from_old_format(st, t) ==
    LET old_key == IF IsSome(st.openai_api_key)
                   THEN as_str(Unwrap(st.openai_api_key)) ELSE None
    IN  IF IsSome(old_key)
        THEN LET default_config == default_openai(Unwrap(old_key), t)
                 added == add_config(AppConfig_default, default_config)
                 new_config == set_active_config(added, default_config.id).config
             IN  save_config(st, new_config)
        ELSE st

\* the store after ConfigManager::new
ConfigManager_new(st, t) ==
    IF needs_migration(st) THEN migrate_from_old_format(st, t) ELSE st

----------------------------------------------------------------------------
(* Configuration commands and their callers *)

\* concurrent invocations of configuration commands
Callers == {"c1", "c2"}

\* commands invoked (and restarts of the application) in one behaviour
MaxCommands == 2
\* last instant of the clock
MaxClock == 2

\* ModelConfigUpdate with no field supplied
NoUpdates ==
    [name |-> None, provider |-> None, api_base_url |-> None, api_key |-> None,
     default_model |-> None, enabled |-> None]

\* ModelConfigUpdate values the commands are given
Updates ==
    { NoUpdates,
      [NoUpdates EXCEPT !.name = Some("Renamed")],
      [NoUpdates EXCEPT !.provider = Some("DeepSeek"),
                        !.api_base_url = Some("https://api.deepseek.com"),
                        !.api_key = Some("sk-ds"),
                        !.default_model = Some("deepseek-chat"),
                        !.enabled = Some(FALSE)] }

\* ModelConfig values handed to save_model_config: a new id, and an id that
\* StoredConfigs already holds
NewConfigs ==
    { ModelConfig_new("cfg-new", "New", "Custom", "http://localhost", "sk-new",
                      "custom-model", 0),
      ModelConfig_new("cfg-openai", "Again", "OpenAI",
                      "https://api.openai.com/v1", "sk-other", "gpt-4", 0) }

CommandIds == {"cfg-openai", "cfg-anthropic", "cfg-missing"}
Vendors == {"OpenAI", "Anthropic"}
\* Vec<ModelInfo> fetched from a vendor
ModelList == <<"model-a", "model-b">>
CacheHours == {0, 1}

\* no update_model_cache has stored a list
NoWindows == [k \in CacheKeys |-> None]

\* the windows once command c has completed at instant t
window_after(w, c, t) ==
    IF c.op = "update_model_cache"
    THEN [w EXCEPT ![cache_key(c.vendor)] = Some(t + c.cache_hours)]
    ELSE w

\* a caller with no command in hand
NoCommand ==
    [op |-> "none", config_id |-> "", model_config |-> StoredConfigs[1],
     updates |-> NoUpdates, vendor |-> "OpenAI", models |-> <<>>,
     cache_hours |-> 0]

NoOp ==
    [p |-> "none", c |-> NoCommand, before |-> AppConfig_default, after |-> AppConfig_default,
     t |-> 0, saved |-> FALSE, ret |-> Returned(FALSE, None)]

NotStarted == [ran |-> FALSE, before |-> InitStore, after |-> InitStore]

\* the application has started on a store already in the new format and no
\* configuration command is running
IdleConfig ==
    /\ store = InitStore
    /\ now = 0
    /\ startup = [ran |-> TRUE, before |-> InitStore, after |-> InitStore]
    /\ cpc = [p \in Callers |-> "idle"]
    /\ cmd = [p \in Callers |-> NoCommand]
    /\ loaded = [p \in Callers |-> AppConfig_default]
    /\ issued = 0
    /\ serial = InitStore
    /\ last_op = NoOp
    /\ windows = NoWindows

----------------------------------------------------------------------------
(* Components at rest *)

NoCache == [p \in CachePaths |-> None]

IdleRequest ==
    /\ req = NoRequest
    /\ mode = "none"
    /\ provider = "none"
    /\ result = "none"
    /\ sink = <<>>
    /\ full_insight = <<>>
    /\ fs_write = "none"
    /\ network_calls = {}
    /\ provider_calls = 0
    /\ http_status = None
    /\ lock = "free"

\* no second command has been invoked
NoPeer ==
    [pc |-> "idle", kind |-> "none", repo |-> AnyRepo, model_config_id |-> "",
     seen |-> None, events |-> 0, sink |-> <<>>, full_insight |-> <<>>,
     provider_calls |-> 0, fs_write |-> "none", result |-> "none"]

IdlePeer ==
    /\ peer = NoPeer
    /\ writers = <<>>

\* no stream has been opened: the event sources of the model end after at
\* most MaxEvents events
IdleTask ==
    /\ source_len = MaxEvents
    /\ send_failed_at = None
    /\ inbound = <<>>

\* no stand-alone call has been made
NoUrl == [pc |-> "none", base |-> <<>>, path |-> <<>>, endpoint |-> <<>>]
NoBatch == [pc |-> "none", repos |-> <<>>, exists |-> <<>>]
NoCall == [op |-> "none", pc |-> "none", input |-> <<>>, output |-> <<>>]

IdleCalls ==
    /\ url = NoUrl
    /\ batch = NoBatch
    /\ call = NoCall

IdleAdapter ==
    /\ producer = "none"
    /\ chan = <<>>
    /\ rx_open = FALSE
    /\ events_read = 0
    /\ sent = <<>>
    /\ observed = <<>>

IdleHarness ==
    /\ h_pc = "none"
    /\ h_repo = AnyRepo
    /\ h_text = <<>>
    /\ h_write_ok = FALSE
    /\ h_prev = None
    /\ h_got = None

----------------------------------------------------------------------------
(* The adapter with a draining consumer *)

\* handle_stream_response has just returned LLMResponse::Stream to a consumer
InitAdapter ==
    /\ cache = NoCache
    /\ pre_cache = cache
    /\ IdleRequest
    /\ IdlePeer
    /\ IdleTask
    /\ IdleCalls
    /\ IdleHarness
    /\ IdleConfig
    /\ pc = "drain"
    /\ producer = "running"
    /\ chan = <<>>
    /\ rx_open = TRUE
    /\ events_read = 0
    /\ sent = <<>>
    /\ observed = <<>>

NextAdapter ==
    \/ \E event \in InboundEvents : ProducerEvent(event)
    \/ ProducerSourceEnded
    \/ ProducerFinish
    \/ DrainRecv
    \/ DrainClosed
    \/ DrainDrop

SpecAdapter == InitAdapter /\ [][NextAdapter]_vars

----------------------------------------------------------------------------
(* The adapter with a consumer slower than the event source *)

\* events of the long stream: enough to fill the channel and go on
MaxBurst == 102

\* the long stream is made of text deltas
BurstEvent == Message(Json(Some(Hello)))

InitBurst ==
    /\ cache = NoCache
    /\ pre_cache = cache
    /\ IdleRequest
    /\ IdlePeer
    /\ IdleCalls
    /\ IdleHarness
    /\ IdleConfig
    /\ pc = "drain"
    /\ producer = "running"
    /\ chan = <<>>
    /\ rx_open = TRUE
    /\ events_read = 0
    /\ sent = <<>>
    /\ observed = <<>>
    /\ source_len = MaxBurst
    /\ send_failed_at = None
    /\ inbound = <<>>

\* the consumer gives up while the channel is full
DrainDropFull ==
    /\ Len(chan) = ChannelCapacity
    /\ DrainDrop

NextBurst ==
    \/ ProducerEvent(BurstEvent)
    \/ ProducerSourceEnded
    \/ ProducerFinish
    \/ DrainRecv
    \/ DrainClosed
    \/ DrainDropFull

SpecBurst == InitBurst /\ [][NextBurst]_vars

----------------------------------------------------------------------------
(* Provider factory and adapters *)

\* LLMFactory::create_provider: the adapter type chosen for the vendor tag
create_provider(config) ==
    CASE config.provider = "OpenAI" -> "OpenAIProvider"
      [] config.provider = "Anthropic" -> "AnthropicProvider"
      [] config.provider = "Google" -> "GoogleProvider"
      [] config.provider = "DeepSeek" -> "DeepSeekProvider"
      [] config.provider = "AzureOpenAI" -> "AzureOpenAIProvider"
      [] OTHER -> "CustomProvider"

\* An adapter set in which every vendor streams
chat_completion_always_stream(adapter) == "Stream"

\* chat_completion(messages, model, stream = true): the OpenAI-compatible
\* adapters hand back a live stream, the others fail with a configuration error
chat_completion(adapter) ==
    IF adapter \in {"OpenAIProvider", "DeepSeekProvider", "CustomProvider"}
    THEN "Stream"
    ELSE "ConfigurationError"

\* A classifier that tests the 400..499 range before the single statuses
from_status_code_range_first(status) ==
    CASE status \in 400..499 -> "RequestFailed"
      [] status \in 500..599 -> "NetworkError"
      [] OTHER -> "Unknown"

\* LLMError::from_status_code
from_status_code(status) ==
    CASE status \in {401, 403} -> "AuthenticationFailed"
      [] status = 404 -> "ModelUnavailable"
      [] status = 429 -> "InsufficientQuota"
      [] status \in 400..499 -> "RequestFailed"
      [] status \in 500..599 -> "NetworkError"
      [] OTHER -> "Unknown"

\* response.status() of the GET /models exchange
HttpOutcomes == {200, 302, 399, 400, 401, 403, 404, 429, 499, 500, 503, 599, 600}

\* the adapters whose list_models and test_connection send GET /models
calls_models_endpoint(adapter) ==
    adapter \in {"OpenAIProvider", "DeepSeekProvider", "CustomProvider"}

\* OpenAIProvider::list_models for one exchange
openai_list_models(status) ==
    IF status \in 200..299 THEN "Ok" ELSE from_status_code(status)

\* OpenAIProvider::test_connection
openai_test_connection(status) ==
    LET listed == openai_list_models(status)
    IN  IF listed = "Ok" THEN "Ok"
        ELSE IF listed = "AuthenticationFailed" THEN "AuthenticationFailed"
        ELSE "ConfigurationError"

\* list_models of the adapter: the OpenAI adapter reports its failure, DeepSeek
\* and Custom fall back to a preset list, the others return a fixed list
list_models(adapter, status) ==
    IF adapter = "OpenAIProvider" THEN openai_list_models(status) ELSE "Ok"

\* test_connection of the adapter
test_connection(adapter, status) ==
    IF adapter \in {"OpenAIProvider", "DeepSeekProvider", "CustomProvider"}
    THEN openai_test_connection(status)
    ELSE "ConfigurationError"

\* A lookup that ignores the id and yields the first stored configuration
find_config_first(configs, config_id) ==
    IF configs = <<>> THEN None ELSE Some(Head(configs))

\* configs.iter().find(|c| c.id == config_id)
RECURSIVE find_config(_, _)
find_config(configs, config_id) ==
    IF configs = <<>> THEN None
    ELSE IF Head(configs).id = config_id THEN Some(Head(configs))
    ELSE find_config(Tail(configs), config_id)

----------------------------------------------------------------------------
(* The caller's event sink *)

Token(t) == [type |-> "Token", data |-> t]
PayloadError(msg) == [type |-> "Error", data |-> msg]
PayloadDone == [type |-> "Done", data |-> <<>>]

----------------------------------------------------------------------------
(* summarize_repo *)

ApiKeys == {None, Some("sk-key")}
ConfigIds == {None, Some("cfg-openai"), Some("cfg-anthropic"), Some("cfg-missing")}

check_cache_ignoring_refresh(c, repo, refresh) == get_cached_insight_internal(c, repo)

\* step 1 of summarize_repo: the cached text to serve, if the cache is consulted
check_cache(c, repo, refresh) ==
    IF ~refresh THEN get_cached_insight_internal(c, repo) ELSE None

\* the metadata fetches of steps 2 and 3
context_fetches(deep_mode) ==
    IF deep_mode THEN {"readme", "tree", "manifest"} ELSE {"readme"}

\* the branch taken by "if let Some(config_id) ... else if let Some(api_key) ..."
select_mode(api_key, model_config_id) ==
    IF IsSome(model_config_id) THEN "managed"
    ELSE IF IsSome(api_key) THEN "direct"
    ELSE "invalid"

\* the command is invoked: it reads its flags and consults the cache
SummarizeRepo(repo, api_key, model_config_id, deep_context, force_refresh) ==
    /\ pc = "idle"
    /\ req' = [repo |-> repo, api_key |-> api_key,
               model_config_id |-> model_config_id,
               deep_context |-> deep_context, force_refresh |-> force_refresh]
    /\ pre_cache' = cache
    /\ LET cached == check_cache(cache, repo, force_refresh)
       IN  IF IsSome(cached)
           THEN /\ sink' = <<Token(Unwrap(cached)), PayloadDone>>
                /\ mode' = "cache_hit"
                /\ result' = "Ok"
                /\ pc' = "returned"
           ELSE /\ pc' = "compose"
                /\ UNCHANGED <<sink, mode, result>>
    /\ UNCHANGED <<cache, store, lock, provider, full_insight, fs_write,
                   network_calls, provider_calls, http_status, adapter_vars, observed,
                   harness_vars, peer_vars, config_vars, task_vars,
                   call_vars>>

\* the README and deep-context fetches complete, the prompt is built and the
\* request is dispatched on the credential it carries
ComposeContext ==
    /\ pc = "compose"
    /\ network_calls' = context_fetches(req.deep_context)
    /\ LET m == select_mode(req.api_key, req.model_config_id)
       IN  CASE m = "managed" ->
                  /\ mode' = "managed"
                  /\ pc' = "resolve"
                  /\ UNCHANGED <<result, provider, provider_calls, adapter_vars>>
             [] m = "direct" ->
                  \* summarize_with_api_key: a single-use OpenAI configuration
                  /\ mode' = "direct"
                  /\ provider' = create_provider([provider |-> "OpenAI"])
                  /\ provider_calls' = provider_calls + 1
                  /\ producer' = "running"
                  /\ rx_open' = TRUE
                  /\ chan' = <<>>
                  /\ events_read' = 0
                  /\ sent' = <<>>
                  /\ pc' = "relay"
                  /\ UNCHANGED result
             [] OTHER ->
                  /\ result' = "MissingCredential"
                  /\ pc' = "returned"
                  /\ UNCHANGED <<mode, provider, provider_calls, adapter_vars>>
    /\ UNCHANGED <<cache, store, lock, req, sink, full_insight, pre_cache,
                   fs_write, http_status, observed, harness_vars, peer_vars, config_vars, task_vars,
                   call_vars>>

\* summarize_and_cache up to the provider's response: the mutex is taken, the
\* configuration looked up, the adapter built and chat_completion called
ResolveProvider ==
    /\ pc = "resolve"
    /\ lock = "free"
    /\ LET config == find_config(get_all_model_configs(store),
                                 Unwrap(req.model_config_id))
       IN  IF ~IsSome(config)
           THEN /\ result' = "ConfigNotFound"
                /\ pc' = "returned"
                /\ UNCHANGED <<lock, provider, provider_calls, adapter_vars>>
           ELSE LET adapter == create_provider(Unwrap(config))
                IN  /\ provider' = adapter
                    /\ provider_calls' = provider_calls + 1
                    /\ IF chat_completion(adapter) = "Stream"
                       THEN /\ lock' = "summarize_and_cache"
                            /\ producer' = "running"
                            /\ rx_open' = TRUE
                            /\ chan' = <<>>
                            /\ events_read' = 0
                            /\ sent' = <<>>
                            /\ pc' = "relay"
                            /\ UNCHANGED result
                       ELSE /\ result' = chat_completion(adapter)
                            /\ pc' = "returned"
                            /\ UNCHANGED <<lock, adapter_vars>>
    /\ UNCHANGED <<cache, store, req, mode, sink, full_insight, pre_cache,
                   fs_write, network_calls, http_status, observed, harness_vars, peer_vars,
                   config_vars, task_vars,
                   call_vars>>

caches_insight_in_every_mode(m) == TRUE

\* only the branch that runs summarize_and_cache keeps a buffer and saves it;
\* summarize_with_api_key relays and returns
caches_insight(m) == m = "managed"

accumulate_last(buffer, text) == text

\* full_insight.push_str(&text)
accumulate(buffer, text) == buffer \o text

\* StreamChunk::Text: accumulated (managed mode) and forwarded
RelayText ==
    /\ pc = "relay"
    /\ chan # <<>>
    /\ Head(chan).type = "Text"
    /\ full_insight' = IF caches_insight(mode)
                       THEN accumulate(full_insight, Head(chan).data)
                       ELSE full_insight
    /\ sink' = Append(sink, Token(Head(chan).data))
    /\ chan' = Tail(chan)
    /\ UNCHANGED <<cache, store, lock, pc, req, mode, provider, result,
                   pre_cache, fs_write, network_calls, provider_calls, http_status, producer,
                   rx_open, events_read, sent, observed, harness_vars, peer_vars,
                   config_vars, task_vars,
                   call_vars>>

cache_after_error_saving(c, repo, buffer) == save_cache(c, repo, buffer, TRUE)

\* the Error arm leaves the cache alone
cache_after_error(c, repo, buffer) == c

\* StreamChunk::Error: forwarded, then the function returns Err and the
\* receiver and the mutex guard are dropped
RelayError ==
    /\ pc = "relay"
    /\ chan # <<>>
    /\ Head(chan).type = "Error"
    /\ sink' = Append(sink, PayloadError(Head(chan).data))
    /\ cache' = IF mode = "managed"
                THEN cache_after_error(cache, req.repo, full_insight)
                ELSE cache
    /\ result' = "StreamError"
    /\ pc' = "returned"
    /\ rx_open' = FALSE
    /\ chan' = <<>>
    /\ lock' = "free"
    /\ UNCHANGED <<store, req, mode, provider, full_insight, pre_cache,
                   fs_write, network_calls, provider_calls, http_status, producer, events_read,
                   sent, observed, harness_vars, peer_vars, config_vars, task_vars,
                   call_vars>>

\* StreamChunk::Done: forwarded; managed mode goes on to save_cache, direct
\* mode leaves the loop and returns Ok
RelayDone ==
    /\ pc = "relay"
    /\ chan # <<>>
    /\ Head(chan).type = "Done"
    /\ sink' = Append(sink, PayloadDone)
    /\ IF caches_insight(mode)
       THEN /\ pc' = "save"
            /\ chan' = Tail(chan)
            /\ UNCHANGED <<result, rx_open>>
       ELSE /\ pc' = "returned"
            /\ result' = "Ok"
            /\ rx_open' = FALSE
            /\ chan' = <<>>
    /\ UNCHANGED <<cache, store, lock, req, mode, provider, full_insight,
                   pre_cache, fs_write, network_calls, provider_calls, http_status, producer,
                   events_read, sent, observed, harness_vars, peer_vars, config_vars, task_vars,
                   call_vars>>

\* A return that reports a failed file write to the caller
result_after_save_reporting(write_ok) ==
    IF write_ok THEN "Ok" ELSE "CacheWriteFailed"

\* save_cache returns (): whatever became of the write, the loop breaks and
\* summarize_and_cache returns Ok(())
result_after_save(write_ok) == "Ok"

\* save_cache(repo, &full_insight) after Done was forwarded, then break and
\* Ok(()): the receiver and the mutex guard are dropped; write_ok is false when
\* the cache path is unavailable or fs::write fails
SaveCache(write_ok) ==
    /\ pc = "save"
    /\ cache' = save_cache(cache, req.repo, full_insight, write_ok)
    /\ fs_write' = IF rejects_content(full_insight) THEN "none"
                   ELSE IF write_ok THEN "ok" ELSE "err"
    /\ writers' = written(writers, "request", req.repo, full_insight, write_ok)
    /\ result' = result_after_save(write_ok)
    /\ pc' = "returned"
    /\ rx_open' = FALSE
    /\ chan' = <<>>
    /\ lock' = "free"
    /\ UNCHANGED <<store, req, mode, provider, sink, full_insight, pre_cache,
                   network_calls, provider_calls, http_status, producer,
                   events_read, sent, observed, harness_vars, peer, config_vars, task_vars,
                   call_vars>>

----------------------------------------------------------------------------
(* list_models and test_model_connection *)

\* the list_models command
ListModels(model_config_id, status) ==
    /\ pc = "idle"
    /\ lock = "free"
    /\ req' = [NoRequest EXCEPT !.model_config_id = Some(model_config_id)]
    /\ mode' = "list_models"
    /\ pre_cache' = cache
    /\ LET config == find_config(get_all_model_configs(store), model_config_id)
       IN  IF ~IsSome(config)
           THEN /\ result' = "ConfigNotFound"
                /\ UNCHANGED <<provider, provider_calls, http_status>>
           ELSE /\ provider' = create_provider(Unwrap(config))
                /\ provider_calls' = provider_calls + 1
                /\ http_status' = IF calls_models_endpoint(create_provider(Unwrap(config)))
                                  THEN Some(status) ELSE None
                /\ result' = list_models(create_provider(Unwrap(config)), status)
    /\ pc' = "returned"
    /\ UNCHANGED <<cache, store, lock, sink, full_insight, fs_write,
                   network_calls, adapter_vars, observed, harness_vars, peer_vars,
                   config_vars, task_vars,
                   call_vars>>

\* the test_model_connection command
TestModelConnection(model_config_id, status) ==
    /\ pc = "idle"
    /\ lock = "free"
    /\ req' = [NoRequest EXCEPT !.model_config_id = Some(model_config_id)]
    /\ mode' = "test_model_connection"
    /\ pre_cache' = cache
    /\ LET config == find_config(get_all_model_configs(store), model_config_id)
       IN  IF ~IsSome(config)
           THEN /\ result' = "ConfigNotFound"
                /\ UNCHANGED <<provider, provider_calls, http_status>>
           ELSE /\ provider' = create_provider(Unwrap(config))
                /\ provider_calls' = provider_calls + 1
                /\ http_status' = IF calls_models_endpoint(create_provider(Unwrap(config)))
                                  THEN Some(status) ELSE None
                /\ result' = test_connection(create_provider(Unwrap(config)), status)
    /\ pc' = "returned"
    /\ UNCHANGED <<cache, store, lock, sink, full_insight, fs_write,
                   network_calls, adapter_vars, observed, harness_vars, peer_vars,
                   config_vars, task_vars,
                   call_vars>>

----------------------------------------------------------------------------
(* The Insight Cache on its own: put(identity, text), then get(identity) *)

CacheChars == {"a", " "}

\* every text of at most n characters
TextsUpTo(n) == UNION {[1..k -> CacheChars] : k \in 0..n}

InitCache ==
    /\ cache \in InitialCaches
    /\ pre_cache = cache
    /\ pc = "cache"
    /\ IdleRequest
    /\ IdlePeer
    /\ IdleTask
    /\ IdleCalls
    /\ IdleAdapter
    /\ IdleConfig
    /\ h_pc = "put"
    /\ h_repo \in Repos
    /\ h_text \in TextsUpTo(MaxTextLen)
    /\ h_write_ok = FALSE
    /\ h_prev = get_cached_insight_internal(cache, h_repo)
    /\ h_got = None

\* save_cache(&h_repo, &h_text)
CachePut(write_ok) ==
    /\ h_pc = "put"
    /\ cache' = save_cache(cache, h_repo, h_text, write_ok)
    /\ h_write_ok' = write_ok
    /\ h_pc' = "get"
    /\ UNCHANGED <<store, request_vars, adapter_vars, observed, h_repo,
                   h_text, h_prev, h_got, config_vars, peer_vars, task_vars,
                   call_vars>>

\* get_cached_insight(h_repo)
CacheGet ==
    /\ h_pc = "get"
    /\ h_got' = get_cached_insight_internal(cache, h_repo)
    /\ h_pc' = "done"
    /\ UNCHANGED <<cache, store, request_vars, adapter_vars, observed,
                   h_repo, h_text, h_write_ok, h_prev, config_vars, peer_vars, task_vars,
                   call_vars>>

NextCache ==
    \/ \E write_ok \in BOOLEAN : CachePut(write_ok)
    \/ CacheGet

SpecCache == InitCache /\ [][NextCache]_vars

----------------------------------------------------------------------------
(* The Config Store: startup and the configuration commands *)

LegacyValues == {None, Some(JsonString("sk-legacy")), Some(JsonNotString)}

\* settings.json as an installation can hold it at startup
InitialStores ==
    [openai_api_key : LegacyValues, app_config : {None, Some(InitAppConfig)}]

InitConfig ==
    /\ cache = NoCache
    /\ pre_cache = cache
    /\ pc = "config"
    /\ IdleRequest
    /\ IdlePeer
    /\ IdleTask
    /\ IdleCalls
    /\ IdleAdapter
    /\ IdleHarness
    /\ store \in InitialStores
    /\ now = 0
    /\ startup = NotStarted
    /\ cpc = [p \in Callers |-> "idle"]
    /\ cmd = [p \in Callers |-> NoCommand]
    /\ loaded = [p \in Callers |-> AppConfig_default]
    /\ issued = 0
    /\ serial = store
    /\ last_op = NoOp
    /\ windows = NoWindows

\* setup: ConfigManager::new builds the facade (again at each start of the
\* application), migrating the legacy credential when needed
ConfigManagerNew ==
    /\ pc = "config"
    /\ \A p \in Callers : cpc[p] = "idle"
    /\ startup.ran => issued < MaxCommands
    /\ issued' = IF startup.ran THEN issued + 1 ELSE issued
    /\ store' = ConfigManager_new(store, now)
    /\ startup' = [ran |-> TRUE, before |-> store, after |-> store']
    /\ serial' = store'
    /\ UNCHANGED <<cache, lock, summarize_vars, adapter_vars, observed,
                   harness_vars, peer_vars, now, cpc, cmd, loaded, last_op, task_vars,
                   windows,
                   call_vars>>

\* A lock that is granted whoever holds it
can_lock_always(holder) == TRUE

\* manager.lock().await returns once no other caller holds the mutex
can_lock(holder) == holder = "free"

\* a command is invoked and takes the facade's mutex; callers are
\* interchangeable, and "c1" names the one that invokes the first command
Invoke(p, c) ==
    /\ pc = "config"
    /\ startup.ran
    /\ cpc[p] = "idle"
    /\ issued = 0 => p = "c1"
    /\ issued < MaxCommands
    /\ can_lock(lock)
    /\ lock' = p
    /\ cmd' = [cmd EXCEPT ![p] = c]
    /\ cpc' = [cpc EXCEPT ![p] = "locked"]
    /\ issued' = issued + 1
    /\ last_op' = IF \A q \in Callers : cpc[q] = "idle" THEN NoOp ELSE last_op
    /\ UNCHANGED <<cache, store, summarize_vars, adapter_vars, observed,
                   harness_vars, peer_vars, now, startup, loaded, serial, task_vars,
                   windows,
                   call_vars>>

SetActiveModelConfig(p, config_id) ==
    /\ cpc[p] = "idle"
    /\ Invoke(p, [NoCommand EXCEPT !.op = "set_active_model_config",
                                   !.config_id = config_id])

SaveModelConfig(p, config) ==
    /\ cpc[p] = "idle"
    /\ Invoke(p, [NoCommand EXCEPT !.op = "save_model_config",
                                   !.model_config = config])

UpdateModelConfig(p, config_id, updates) ==
    /\ cpc[p] = "idle"
    /\ Invoke(p, [NoCommand EXCEPT !.op = "update_model_config",
                                   !.config_id = config_id, !.updates = updates])

DeleteModelConfig(p, config_id) ==
    /\ cpc[p] = "idle"
    /\ Invoke(p, [NoCommand EXCEPT !.op = "delete_model_config",
                                   !.config_id = config_id])

ClearModelCache(p) ==
    /\ cpc[p] = "idle"
    /\ Invoke(p, [NoCommand EXCEPT !.op = "clear_model_cache"])

UpdateModelCache(p, vendor, cache_hours) ==
    /\ cpc[p] = "idle"
    /\ Invoke(p, [NoCommand EXCEPT !.op = "update_model_cache", !.vendor = vendor,
                                   !.models = ModelList,
                                   !.cache_hours = cache_hours])

GetCachedModels(p, vendor) ==
    /\ cpc[p] = "idle"
    /\ Invoke(p, [NoCommand EXCEPT !.op = "get_cached_models", !.vendor = vendor])

\* self.load_config().await of the running command
CommandLoad(p) ==
    /\ cpc[p] = "locked"
    /\ loaded' = [loaded EXCEPT ![p] = load_config(store)]
    /\ cpc' = [cpc EXCEPT ![p] = "loaded"]
    /\ UNCHANGED <<cache, store, lock, summarize_vars, adapter_vars, observed,
                   harness_vars, peer_vars, now, startup, cmd, issued, serial, last_op, task_vars,
                   windows,
                   call_vars>>

\* the operation on the loaded config, save_config when it calls for one, and
\* the return, which drops the mutex guard
CommandSave(p) ==
    /\ cpc[p] = "loaded"
    /\ LET r == apply_command(cmd[p], loaded[p], now)
       IN  /\ store' = IF r.save THEN save_config(store, r.config) ELSE store
           /\ last_op' = [p |-> p, c |-> cmd[p], before |-> loaded[p],
                          after |-> r.config, t |-> now, saved |-> r.save,
                          ret |-> r.ret]
    /\ serial' = run_command(serial, cmd[p], now)
    /\ windows' = window_after(windows, cmd[p], now)
    /\ lock' = "free"
    /\ cpc' = [cpc EXCEPT ![p] = "idle"]
    /\ cmd' = [cmd EXCEPT ![p] = NoCommand]
    /\ loaded' = [loaded EXCEPT ![p] = AppConfig_default]
    /\ UNCHANGED <<cache, summarize_vars, adapter_vars, observed, harness_vars, peer_vars,
                   now, startup, issued, task_vars,
                   call_vars>>

\* time passes between commands
Tick ==
    /\ pc = "config"
    /\ \A p \in Callers : cpc[p] = "idle"
    /\ now < MaxClock
    /\ now' = now + 1
    /\ UNCHANGED <<cache, store, lock, summarize_vars, adapter_vars, observed,
                   harness_vars, peer_vars, startup, cpc, cmd, loaded, issued, serial,
                   last_op, task_vars, windows,
                   call_vars>>

NextConfig ==
    \/ ConfigManagerNew
    \/ \E p \in Callers, id \in {"cfg-anthropic", "cfg-missing"} :
          SetActiveModelConfig(p, id)
    \/ \E p \in Callers, config \in NewConfigs : SaveModelConfig(p, config)
    \/ \E p \in Callers, id \in {"cfg-openai", "cfg-missing"}, updates \in Updates :
          UpdateModelConfig(p, id, updates)
    \/ \E p \in Callers, id \in CommandIds : DeleteModelConfig(p, id)
    \/ \E p \in Callers : ClearModelCache(p)
    \/ \E p \in Callers, vendor \in Vendors, cache_hours \in CacheHours :
          UpdateModelCache(p, vendor, cache_hours)
    \/ \E p \in Callers, vendor \in Vendors : GetCachedModels(p, vendor)
    \/ \E p \in Callers : CommandLoad(p)
    \/ \E p \in Callers : CommandSave(p)
    \/ Tick

SpecConfig == InitConfig /\ [][NextConfig]_vars

----------------------------------------------------------------------------
(* The model-list cache after a first update_model_cache *)

\* an update_model_cache(vendor, ModelList, cache_hours) command
UpdateCommand(vendor, cache_hours) ==
    [NoCommand EXCEPT !.op = "update_model_cache", !.vendor = vendor,
                      !.models = ModelList, !.cache_hours = cache_hours]

\* the application has started and one update_model_cache has completed at
\* instant 0
InitModelCache ==
    /\ cache = NoCache
    /\ pre_cache = cache
    /\ pc = "config"
    /\ IdleRequest
    /\ IdlePeer
    /\ IdleTask
    /\ IdleCalls
    /\ IdleAdapter
    /\ IdleHarness
    /\ now = 0
    /\ \E vendor \in Vendors, cache_hours \in CacheHours :
          /\ store = run_command(InitStore, UpdateCommand(vendor, cache_hours), 0)
          /\ windows = window_after(NoWindows, UpdateCommand(vendor, cache_hours), 0)
    /\ startup = [ran |-> TRUE, before |-> InitStore, after |-> InitStore]
    /\ cpc = [p \in Callers |-> "idle"]
    /\ cmd = [p \in Callers |-> NoCommand]
    /\ loaded = [p \in Callers |-> AppConfig_default]
    /\ issued = 0
    /\ serial = store
    /\ last_op = NoOp

NextModelCache ==
    \/ \E p \in Callers : ClearModelCache(p)
    \/ \E p \in Callers, vendor \in Vendors, cache_hours \in CacheHours :
          UpdateModelCache(p, vendor, cache_hours)
    \/ \E p \in Callers, vendor \in Vendors : GetCachedModels(p, vendor)
    \/ \E p \in Callers : CommandLoad(p)
    \/ \E p \in Callers : CommandSave(p)
    \/ Tick

SpecModelCache == InitModelCache /\ [][NextModelCache]_vars

----------------------------------------------------------------------------
(* The gateway serving one command *)

Init ==
    /\ cache \in InitialCaches
    /\ pre_cache = cache
    /\ pc = "idle"
    /\ IdleRequest
    /\ IdlePeer
    /\ IdleTask
    /\ IdleCalls
    /\ IdleAdapter
    /\ IdleHarness
    /\ IdleConfig

Next ==
    \/ \E repo \in Repos, api_key \in ApiKeys, model_config_id \in ConfigIds,
          deep_context \in BOOLEAN, force_refresh \in BOOLEAN :
          SummarizeRepo(repo, api_key, model_config_id, deep_context, force_refresh)
    \/ ComposeContext
    \/ ResolveProvider
    \/ RelayText
    \/ RelayError
    \/ RelayDone
    \/ \E write_ok \in BOOLEAN : SaveCache(write_ok)
    \/ \E event \in InboundEvents : ProducerEvent(event)
    \/ ProducerSourceEnded
    \/ ProducerFinish
    \/ \E id \in {"cfg-openai", "cfg-anthropic", "cfg-missing"},
          status \in HttpOutcomes : ListModels(id, status)
    \/ \E id \in {"cfg-openai", "cfg-anthropic", "cfg-missing"},
          status \in HttpOutcomes : TestModelConnection(id, status)

Spec == Init /\ [][Next]_vars

----------------------------------------------------------------------------
(* The stream under fair scheduling *)

\* a stream is opened by a summarize_repo request, or handed to a consumer
\* that reads until the channel closes unless it gives up, from a short event
\* source or from the long one
InitLive ==
    \/ Init /\ cache = NoCache
    \/ InitAdapter
    \/ InitBurst

\* what a short event source delivers: a delta, an event that is no message,
\* and each of the events that end the stream
LiveEvents ==
    {Message(Json(Some(Hello))), Open, Message(DoneMarker), Message(Malformed),
     SourceError}

\* source.next() yields Some(event); the long source is made of text deltas
LiveEvent(event) ==
    /\ source_len = MaxBurst => event = BurstEvent
    /\ ProducerEvent(event)

\* the draining consumer gives up; on the long source, while the channel is
\* full
LiveDrop ==
    /\ source_len = MaxBurst => Len(chan) = ChannelCapacity
    /\ DrainDrop

\* the spawned task takes its next turn: tokio polls it whenever
\* source.next() or tx.send() is ready
ProducerStep ==
    \/ \E event \in LiveEvents : LiveEvent(event)
    \/ ProducerSourceEnded
    \/ ProducerFinish

\* the task awaiting stream.recv() takes its next turn, in summarize_repo up
\* to its return or in the draining consumer
ConsumerStep ==
    \/ ComposeContext
    \/ ResolveProvider
    \/ RelayText
    \/ RelayError
    \/ RelayDone
    \/ \E write_ok \in BOOLEAN : SaveCache(write_ok)
    \/ DrainRecv
    \/ DrainClosed

NextLive ==
    \/ \E api_key \in ApiKeys, model_config_id \in ConfigIds :
          SummarizeRepo(RepoUpper, api_key, model_config_id, FALSE, FALSE)
    \/ ProducerStep
    \/ ConsumerStep
    \/ LiveDrop

\* both tasks are scheduled whenever they can run; that a consumer gives up,
\* or that a command is invoked at all, is left open
SpecLive ==
    InitLive /\ [][NextLive]_vars /\ WF_vars(ProducerStep) /\ WF_vars(ConsumerStep)

----------------------------------------------------------------------------
(* Two commands side by side: the summarize_repo request and a peer *)

\* what the event source of either stream delivers
StreamEvents ==
    {Message(Json(Some(Hello))), Message(Json(Some(World))), Message(DoneMarker),
     SourceError}

\* repositories the peer summarizes: one sharing the request's cache path, one not
PeerRepos == {RepoLower, RepoHyphen}

\* status of the peer's GET /models exchange
PeerStatuses == {200, 401}

\* a second summarize_repo(repo, model_config_id), flags left out: it consults
\* the cache, fetches the README, and reaches config_manager.lock() in
\* summarize_and_cache
PeerSummarizeRepo(repo, model_config_id) ==
    /\ peer.pc = "idle"
    /\ LET cached == check_cache(cache, repo, FALSE)
       IN  peer' = IF IsSome(cached)
                   THEN [peer EXCEPT !.kind = "summarize_repo", !.repo = repo,
                                     !.model_config_id = model_config_id,
                                     !.seen = cached,
                                     !.sink = <<Token(Unwrap(cached)), PayloadDone>>,
                                     !.result = "Ok", !.pc = "returned"]
                   ELSE [peer EXCEPT !.kind = "summarize_repo", !.repo = repo,
                                     !.model_config_id = model_config_id,
                                     !.seen = cached, !.pc = "lock"]
    /\ UNCHANGED <<cache, store, request_vars, adapter_vars, observed,
                   harness_vars, config_vars, writers, task_vars,
                   call_vars>>

\* a second command that starts by taking the mutex: list_models,
\* test_model_connection or get_model_configs
PeerCommand(kind, model_config_id) ==
    /\ peer.pc = "idle"
    /\ peer' = [peer EXCEPT !.kind = kind, !.model_config_id = model_config_id,
                            !.pc = "lock"]
    /\ UNCHANGED <<cache, store, request_vars, adapter_vars, observed,
                   harness_vars, config_vars, writers, task_vars,
                   call_vars>>

\* config_manager.lock().await of the peer returns
PeerLock ==
    /\ peer.pc = "lock"
    /\ can_lock(lock)
    /\ lock' = "peer"
    /\ peer' = [peer EXCEPT !.pc = "locked"]
    /\ UNCHANGED <<cache, store, summarize_vars, adapter_vars, observed,
                   harness_vars, config_vars, writers, task_vars,
                   call_vars>>

\* summarize_and_cache of the peer up to the provider's response
PeerResolve ==
    /\ peer.pc = "locked"
    /\ peer.kind = "summarize_repo"
    /\ LET config == find_config(get_all_model_configs(store), peer.model_config_id)
       IN  IF ~IsSome(config)
           THEN /\ peer' = [peer EXCEPT !.result = "ConfigNotFound",
                                        !.pc = "returned"]
                /\ lock' = "free"
           ELSE LET response == chat_completion(create_provider(Unwrap(config)))
                IN  IF response = "Stream"
                    THEN /\ peer' = [peer EXCEPT !.provider_calls = @ + 1,
                                                 !.pc = "relay"]
                         /\ UNCHANGED lock
                    ELSE /\ peer' = [peer EXCEPT !.provider_calls = @ + 1,
                                                 !.result = response,
                                                 !.pc = "returned"]
                         /\ lock' = "free"
    /\ UNCHANGED <<cache, store, summarize_vars, adapter_vars, observed,
                   harness_vars, config_vars, writers, task_vars,
                   call_vars>>

\* the locked section of list_models, test_model_connection or
\* get_model_configs, and the return that drops the guard
PeerAnswer(status) ==
    /\ peer.pc = "locked"
    /\ peer.kind # "summarize_repo"
    /\ LET config == find_config(get_all_model_configs(store), peer.model_config_id)
       IN  peer' =
             CASE peer.kind = "get_model_configs" ->
                    [peer EXCEPT !.result = "Ok", !.pc = "returned"]
               [] ~IsSome(config) ->
                    [peer EXCEPT !.result = "ConfigNotFound", !.pc = "returned"]
               [] peer.kind = "list_models" ->
                    [peer EXCEPT !.provider_calls = @ + 1,
                                 !.result = list_models(
                                     create_provider(Unwrap(config)), status),
                                 !.pc = "returned"]
               [] OTHER ->
                    [peer EXCEPT !.provider_calls = @ + 1,
                                 !.result = test_connection(
                                     create_provider(Unwrap(config)), status),
                                 !.pc = "returned"]
    /\ lock' = "free"
    /\ UNCHANGED <<cache, store, summarize_vars, adapter_vars, observed,
                   harness_vars, config_vars, writers, task_vars,
                   call_vars>>

\* the peer after stream.recv() yields chunk
peer_on_chunk(r, chunk) ==
    CASE chunk.type = "Text" ->
            [r EXCEPT !.full_insight = accumulate(@, chunk.data),
                      !.sink = Append(@, Token(chunk.data))]
      [] chunk.type = "Error" ->
            [r EXCEPT !.sink = Append(@, PayloadError(chunk.data)),
                      !.result = "StreamError", !.pc = "returned"]
      [] OTHER ->
            [r EXCEPT !.sink = Append(@, PayloadDone), !.pc = "save"]

\* the peer's producer task takes an event from its source and the peer
\* receives the chunk it sends, if any
PeerRecv(event) ==
    /\ peer.pc = "relay"
    /\ peer.events < MaxEvents
    /\ LET turn == on_event(event)
           counted == [peer EXCEPT !.events = @ + 1]
       IN  /\ peer' = IF IsSome(turn.send)
                      THEN peer_on_chunk(counted, Unwrap(turn.send))
                      ELSE counted
           /\ lock' = IF IsSome(turn.send) /\ Unwrap(turn.send).type = "Error"
                      THEN "free" ELSE lock
    /\ UNCHANGED <<cache, store, summarize_vars, adapter_vars, observed,
                   harness_vars, config_vars, writers, task_vars,
                   call_vars>>

\* the peer's event source ends: its producer sends the chunk after the loop
PeerSourceEnded ==
    /\ peer.pc = "relay"
    /\ peer' = peer_on_chunk(peer, Unwrap(final_chunk))
    /\ UNCHANGED <<cache, store, request_vars, adapter_vars, observed,
                   harness_vars, config_vars, writers, task_vars,
                   call_vars>>

\* save_cache(repo, &full_insight) of the peer, then Ok(())
PeerSaveCache(write_ok) ==
    /\ peer.pc = "save"
    /\ cache' = save_cache(cache, peer.repo, peer.full_insight, write_ok)
    /\ writers' = written(writers, "peer", peer.repo, peer.full_insight, write_ok)
    /\ peer' = [peer EXCEPT
                    !.fs_write = IF rejects_content(peer.full_insight) THEN "none"
                                 ELSE IF write_ok THEN "ok" ELSE "err",
                    !.result = result_after_save(write_ok), !.pc = "returned"]
    /\ lock' = "free"
    /\ UNCHANGED <<store, summarize_vars, adapter_vars, observed, harness_vars,
                   config_vars, task_vars,
                   call_vars>>

InitPair ==
    /\ cache = NoCache
    /\ pre_cache = cache
    /\ pc = "idle"
    /\ IdleRequest
    /\ IdlePeer
    /\ IdleTask
    /\ IdleCalls
    /\ IdleAdapter
    /\ IdleHarness
    /\ IdleConfig

NextPair ==
    \/ SummarizeRepo(RepoUpper, None, Some("cfg-openai"), FALSE, FALSE)
    \/ ComposeContext
    \/ ResolveProvider
    \/ RelayText
    \/ RelayError
    \/ RelayDone
    \/ \E write_ok \in BOOLEAN : SaveCache(write_ok)
    \/ \E event \in StreamEvents : ProducerEvent(event)
    \/ ProducerSourceEnded
    \/ ProducerFinish
    \/ \E repo \in PeerRepos : PeerSummarizeRepo(repo, "cfg-openai")
    \/ \E kind \in {"list_models", "test_model_connection", "get_model_configs"} :
          PeerCommand(kind, "cfg-openai")
    \/ PeerLock
    \/ PeerResolve
    \/ \E status \in PeerStatuses : PeerAnswer(status)
    \/ \E event \in StreamEvents : PeerRecv(event)
    \/ PeerSourceEnded
    \/ \E write_ok \in BOOLEAN : PeerSaveCache(write_ok)

SpecPair == InitPair /\ [][NextPair]_vars

----------------------------------------------------------------------------
(* Commands on a configuration that a partial update has disabled *)

\* update_model_config(config_id, updates) with only `enabled: false` supplied
DisableCommand(config_id) ==
    [NoCommand EXCEPT !.op = "update_model_config", !.config_id = config_id,
                      !.updates = [NoUpdates EXCEPT !.enabled = Some(FALSE)]]

\* the application has started and one of the stored configurations has been
\* disabled at instant 0
InitDisabled ==
    /\ cache = NoCache
    /\ pre_cache = cache
    /\ pc = "idle"
    /\ IdleRequest
    /\ IdlePeer
    /\ IdleTask
    /\ IdleCalls
    /\ IdleAdapter
    /\ IdleHarness
    /\ \E id \in {"cfg-openai", "cfg-anthropic"} :
          store = run_command(InitStore, DisableCommand(id), 0)
    /\ now = 0
    /\ startup = [ran |-> TRUE, before |-> InitStore, after |-> InitStore]
    /\ cpc = [p \in Callers |-> "idle"]
    /\ cmd = [p \in Callers |-> NoCommand]
    /\ loaded = [p \in Callers |-> AppConfig_default]
    /\ issued = 0
    /\ serial = store
    /\ last_op = NoOp
    /\ windows = NoWindows

NextDisabled ==
    \/ \E id \in {"cfg-openai", "cfg-anthropic"}, deep_context \in BOOLEAN :
          SummarizeRepo(RepoUpper, None, Some(id), deep_context, FALSE)
    \/ ComposeContext
    \/ ResolveProvider
    \/ RelayText
    \/ RelayError
    \/ RelayDone
    \/ \E write_ok \in BOOLEAN : SaveCache(write_ok)
    \/ \E event \in StreamEvents : ProducerEvent(event)
    \/ ProducerSourceEnded
    \/ ProducerFinish
    \/ \E id \in {"cfg-openai", "cfg-anthropic"}, status \in HttpOutcomes :
          ListModels(id, status)
    \/ \E id \in {"cfg-openai", "cfg-anthropic"}, status \in HttpOutcomes :
          TestModelConnection(id, status)

SpecDisabled == InitDisabled /\ [][NextDisabled]_vars

----------------------------------------------------------------------------
(* Requests on configurations of the vendors without an integration *)

\* a ConfigurationSet holding one configuration of every vendor
VendorConfigs ==
    << ModelConfig_new("cfg-openai", "OpenAI", "OpenAI",
                       "https://api.openai.com/v1", "sk-key", "gpt-4o-mini", 0),
       ModelConfig_new("cfg-anthropic", "Claude", "Anthropic",
                       "https://api.anthropic.com", "sk-ant", "claude-3-haiku", 0),
       ModelConfig_new("cfg-google", "Gemini", "Google",
                       "https://generativelanguage.googleapis.com", "g-key",
                       "gemini-pro", 0),
       ModelConfig_new("cfg-deepseek", "DeepSeek", "DeepSeek",
                       "https://api.deepseek.com", "sk-ds", "deepseek-chat", 0),
       ModelConfig_new("cfg-azure", "Azure", "AzureOpenAI",
                       "https://example.openai.azure.com", "az-key", "gpt-4", 0),
       ModelConfig_new("cfg-custom", "Local", "Custom", "http://localhost",
                       "sk-new", "custom-model", 0) >>

\* the ids of the Anthropic, Google and Azure OpenAI configurations
StubConfigIds == {"cfg-anthropic", "cfg-google", "cfg-azure"}

InitVendors ==
    /\ cache \in InitialCaches
    /\ pre_cache = cache
    /\ pc = "idle"
    /\ IdleRequest
    /\ IdlePeer
    /\ IdleTask
    /\ IdleCalls
    /\ IdleAdapter
    /\ IdleHarness
    /\ store = save_config(InitStore,
                           [InitAppConfig EXCEPT !.model_configs = VendorConfigs])
    /\ now = 0
    /\ startup = [ran |-> TRUE, before |-> store, after |-> store]
    /\ cpc = [p \in Callers |-> "idle"]
    /\ cmd = [p \in Callers |-> NoCommand]
    /\ loaded = [p \in Callers |-> AppConfig_default]
    /\ issued = 0
    /\ serial = store
    /\ last_op = NoOp
    /\ windows = NoWindows

NextVendors ==
    \/ \E repo \in Repos, id \in StubConfigIds, deep_context \in BOOLEAN,
          force_refresh \in BOOLEAN :
          SummarizeRepo(repo, None, Some(id), deep_context, force_refresh)
    \/ ComposeContext
    \/ ResolveProvider
    \/ \E id \in StubConfigIds, status \in HttpOutcomes :
          TestModelConnection(id, status)

SpecVendors == InitVendors /\ [][NextVendors]_vars

----------------------------------------------------------------------------
(* OpenAIProvider::build_endpoint_url *)

\* longest api_base_url handed to build_endpoint_url
MaxUrlLen == 4

UrlChars == {"a", "/"}

\* every base URL of at most n characters
UrlsUpTo(n) == UNION {[1..k -> UrlChars] : k \in 0..n}

\* the paths the adapter asks for, and paths without or with more slashes
EndpointPaths == {<<"/", "m">>, <<"m">>, <<"/", "/", "m">>, <<>>}

\* A trim that removes one trailing slash at most
trim_one_slash(s) ==
    IF s # <<>> /\ s[Len(s)] = "/" THEN SubSeq(s, 1, Len(s) - 1) ELSE s

\* str::trim_end_matches('/')
RECURSIVE trim_end_matches_slash(_)
trim_end_matches_slash(s) ==
    IF s = <<>> THEN s
    ELSE IF s[Len(s)] = "/" THEN trim_end_matches_slash(SubSeq(s, 1, Len(s) - 1))
         ELSE s

\* format!("{}{}", base_url, path)
build_endpoint_url(api_base_url, path) ==
    LET base_url == trim_end_matches_slash(api_base_url)
    IN  base_url \o path

InitUrl ==
    /\ cache = NoCache
    /\ pre_cache = cache
    /\ pc = "url"
    /\ IdleRequest
    /\ IdlePeer
    /\ IdleTask
    /\ IdleAdapter
    /\ IdleHarness
    /\ IdleConfig
    /\ batch = NoBatch
    /\ call = NoCall
    /\ url \in [pc : {"called"}, base : UrlsUpTo(MaxUrlLen), path : EndpointPaths,
                 endpoint : {<<>>}]

\* self.build_endpoint_url(path) on an adapter whose config has the base URL
BuildEndpointUrl ==
    /\ url.pc = "called"
    /\ url' = [url EXCEPT !.endpoint = build_endpoint_url(url.base, url.path),
                          !.pc = "built"]
    /\ UNCHANGED <<cache, store, request_vars, adapter_vars, observed,
                   harness_vars, peer_vars, config_vars, task_vars, batch, call>>

NextUrl == BuildEndpointUrl

SpecUrl == InitUrl /\ [][NextUrl]_vars

----------------------------------------------------------------------------
(* check_insights_batch *)

\* most identities handed to one check_insights_batch call
MaxBatch == 3

\* every sequence of at most n identities
ReposUpTo(n) == UNION {[1..k -> Repos] : k \in 0..n}

\* A test that finds a file at every path
path_exists_always(c, path) == TRUE

\* path.exists()
path_exists(c, path) == IsSome(c[path])

\* the Vec<String> built by the loop of check_insights_batch
RECURSIVE check_insights_batch(_, _)
check_insights_batch(c, repos) ==
    IF repos = <<>> THEN <<>>
    ELSE IF path_exists(c, get_cache_path(Head(repos)))
         THEN <<Head(repos).url>> \o check_insights_batch(c, Tail(repos))
         ELSE check_insights_batch(c, Tail(repos))

InitBatch ==
    /\ cache \in InitialCaches
    /\ pre_cache = cache
    /\ pc = "batch"
    /\ IdleRequest
    /\ IdlePeer
    /\ IdleTask
    /\ IdleAdapter
    /\ IdleHarness
    /\ IdleConfig
    /\ url = NoUrl
    /\ call = NoCall
    /\ batch \in [pc : {"called"}, repos : ReposUpTo(MaxBatch), exists : {<<>>}]

\* the check_insights_batch command
CheckInsightsBatch ==
    /\ batch.pc = "called"
    /\ batch' = [batch EXCEPT !.exists = check_insights_batch(cache, batch.repos),
                              !.pc = "returned"]
    /\ UNCHANGED <<cache, store, request_vars, adapter_vars, observed,
                   harness_vars, peer_vars, config_vars, task_vars, url, call>>

NextBatch == CheckInsightsBatch

SpecBatch == InitBatch /\ [][NextBatch]_vars

----------------------------------------------------------------------------
(* The GET /models exchange and the OpenAI-compatible adapters *)

\* the "data" member of a JSON response: None when it is not an array, else
\* the ids of the models it lists
ServedModels == {None, Some(<<>>), Some(<<"m1">>), Some(<<"m1", "m2">>)}

\* how the exchange can go: the request fails to connect or times out
\* ("connect"), fails otherwise before a response ("other"), or is answered
\* ("ok") with a status and a body that is JSON or not
Exchanges ==
    [transport : {"ok", "connect", "other"}, status : HttpOutcomes,
     json : BOOLEAN, data : ServedModels]

\* ModelInfo, by the fields the adapters fill differently
ModelInfo(id, name, vendor) == [id |-> id, name |-> name, provider |-> vendor]

\* Result<T, LLMError>
Ok(value) == [ok |-> TRUE, value |-> value]
Err(kind) == [ok |-> FALSE, value |-> kind]

\* From<reqwest::Error> for an error without a status
from_reqwest_error(is_connect_or_timeout) ==
    IF is_connect_or_timeout THEN "NetworkError" ELSE "Unknown"

\* OpenAIProvider::list_models
OpenAIProvider_list_models(exchange) ==
    IF exchange.transport # "ok"
    THEN Err(from_reqwest_error(exchange.transport = "connect"))
    ELSE IF exchange.status \notin 200..299
    THEN Err(from_status_code(exchange.status))
    ELSE IF ~exchange.json THEN Err(from_reqwest_error(FALSE))
    ELSE IF ~IsSome(exchange.data) THEN Err("ParseError")
    ELSE Ok([i \in 1..Len(Unwrap(exchange.data)) |->
                ModelInfo(Unwrap(exchange.data)[i], Unwrap(exchange.data)[i],
                          "OpenAI")])

\* A connection test that hands on the failure of list_models as it is
OpenAIProvider_test_connection_passing(exchange) ==
    LET listed == OpenAIProvider_list_models(exchange)
    IN  IF listed.ok THEN Ok(<<>>) ELSE listed

\* OpenAIProvider::test_connection
OpenAIProvider_test_connection(exchange) ==
    LET listed == OpenAIProvider_list_models(exchange)
    IN  IF listed.ok THEN Ok(<<>>)
        ELSE IF listed.value = "AuthenticationFailed" THEN listed
        ELSE Err("ConfigurationError")

\* for model in &mut models { model.provider = vendor }
set_provider(models, vendor) ==
    [i \in 1..Len(models) |-> [models[i] EXCEPT !.provider = vendor]]

\* DeepSeekProvider::list_models
DeepSeekProvider_list_models(exchange) ==
    LET inner == OpenAIProvider_list_models(exchange)
    IN  IF inner.ok THEN Ok(set_provider(inner.value, "DeepSeek"))
        ELSE Ok(<<ModelInfo("deepseek-chat", "DeepSeek Chat (V3)", "DeepSeek"),
                  ModelInfo("deepseek-reasoner", "DeepSeek Reasoner (R1)",
                            "DeepSeek")>>)

\* CustomProvider::list_models
CustomProvider_list_models(config, exchange) ==
    LET inner == OpenAIProvider_list_models(exchange)
    IN  IF inner.ok THEN Ok(set_provider(inner.value, config.provider))
        ELSE Ok(<<ModelInfo(config.default_model, config.default_model,
                            config.provider)>>)

\* the configurations of the two vendors that wrap an OpenAIProvider
CompatibleConfigs == {VendorConfigs[4], VendorConfigs[6]}

\* the three operations of the LLMProvider trait
ProviderOps == {"chat_completion", "list_models", "test_connection"}

\* one trait operation on the adapter create_provider builds for the
\* configuration of a compatible vendor, and the same on OpenAIProvider::new
\* of that configuration
provider_call(op, config, exchange) ==
    LET adapter == create_provider(config)
    IN  CASE op = "chat_completion" ->
               [adapter |-> chat_completion(adapter),
                reference |-> chat_completion("OpenAIProvider")]
          [] op = "test_connection" ->
               \* self.inner.test_connection().await
               [adapter |-> OpenAIProvider_test_connection(exchange),
                reference |-> OpenAIProvider_test_connection(exchange)]
          [] OTHER ->
               [adapter |-> IF adapter = "DeepSeekProvider"
                            THEN DeepSeekProvider_list_models(exchange)
                            ELSE CustomProvider_list_models(config, exchange),
                reference |-> OpenAIProvider_list_models(exchange)]

InitCompatible ==
    /\ cache = NoCache
    /\ pre_cache = cache
    /\ pc = "call"
    /\ IdleRequest
    /\ IdlePeer
    /\ IdleTask
    /\ IdleAdapter
    /\ IdleHarness
    /\ IdleConfig
    /\ url = NoUrl
    /\ batch = NoBatch
    /\ call \in [op : ProviderOps, pc : {"called"},
                  input : [config : CompatibleConfigs, exchange : Exchanges],
                  output : {<<>>}]

\* the call returns
ProviderCall ==
    /\ call.pc = "called"
    /\ call.op \in ProviderOps
    /\ call' = [call EXCEPT
                    !.output = provider_call(call.op, call.input.config,
                                             call.input.exchange),
                    !.pc = "returned"]
    /\ UNCHANGED <<cache, store, request_vars, adapter_vars, observed,
                   harness_vars, peer_vars, config_vars, task_vars, url, batch>>

NextCompatible == ProviderCall

SpecCompatible == InitCompatible /\ [][NextCompatible]_vars

----------------------------------------------------------------------------
(* test_connection of the OpenAI adapter *)

InitConnection ==
    /\ cache = NoCache
    /\ pre_cache = cache
    /\ pc = "call"
    /\ IdleRequest
    /\ IdlePeer
    /\ IdleTask
    /\ IdleAdapter
    /\ IdleHarness
    /\ IdleConfig
    /\ url = NoUrl
    /\ batch = NoBatch
    /\ call \in [op : {"openai_test_connection"}, pc : {"called"},
                  input : Exchanges, output : {<<>>}]

\* list_models and test_connection of one OpenAIProvider on the same exchange
TestConnection ==
    /\ call.pc = "called"
    /\ call.op = "openai_test_connection"
    /\ call' = [call EXCEPT
                    !.output = [list_models |-> OpenAIProvider_list_models(call.input),
                                test_connection |->
                                    OpenAIProvider_test_connection(call.input)],
                    !.pc = "returned"]
    /\ UNCHANGED <<cache, store, request_vars, adapter_vars, observed,
                   harness_vars, peer_vars, config_vars, task_vars, url, batch>>

NextConnection == TestConnection

SpecConnection == InitConnection /\ [][NextConnection]_vars

----------------------------------------------------------------------------
(* The deep-mode directory listing: fetch_tree *)

\* most entries in the directory listing GitHub returns
MaxEntries == 52

\* items.iter().take(50)
TreeCap == 50

\* an element of the contents array: its "name" and its "type"
Entry(name, type) == [name |-> name, type |-> type]

\* a listing of n entries, numbered in order, whose every step-th one is a
\* directory (none when step is 0)
Listing(n, step) ==
    [i \in 1..n |->
        Entry(i, IF step > 0 /\ i % step = 0 THEN "dir" ELSE "file")]

\* what the contents request yields: None when the request or its JSON fails
Listings ==
    {None} \cup {Some(Listing(n, step)) : n \in 0..MaxEntries, step \in 0..2}

\* format!("{} {}\n", kind, name)
TreeLine(item) ==
    [kind |-> IF item.type = "dir" THEN "[DIR]" ELSE "[FILE]", name |-> item.name]

\* the text pushed after the line of the item at index i
TreeMarker == [kind |-> "...", name |-> 0]

\* if i >= 49 { tree.push_str("... (已省略更多文件)") }, i counted from 0
pushes_marker(i, n) == i >= 49

\* the body of the for loop over items.iter().take(50).enumerate(), from the
\* item at index i (counted from 0) on
RECURSIVE tree_from(_, _)
tree_from(items, i) ==
    IF i >= Len(items) \/ i >= TreeCap THEN <<>>
    ELSE <<TreeLine(items[i + 1])>>
            \o (IF pushes_marker(i, Len(items)) THEN <<TreeMarker>> ELSE <<>>)
            \o tree_from(items, i + 1)

\* fetch_tree: the tree text, as its lines
fetch_tree(listing) ==
    IF IsSome(listing) THEN Some(tree_from(Unwrap(listing), 0)) ELSE None

\* step 3 of summarize_repo: the directory listing put into the prompt
extra_context_tree(deep_mode, listing) ==
    IF deep_mode THEN fetch_tree(listing) ELSE None

InitTree ==
    /\ cache = NoCache
    /\ pre_cache = cache
    /\ pc = "call"
    /\ IdleRequest
    /\ IdlePeer
    /\ IdleTask
    /\ IdleAdapter
    /\ IdleHarness
    /\ IdleConfig
    /\ url = NoUrl
    /\ batch = NoBatch
    /\ call \in [op : {"fetch_tree"}, pc : {"called"},
                  input : [deep_mode : BOOLEAN, listing : Listings],
                  output : {<<>>}]

\* the deep-context step of summarize_repo has run
FetchTree ==
    /\ call.pc = "called"
    /\ call.op = "fetch_tree"
    /\ call' = [call EXCEPT
                    !.output = [tree |-> extra_context_tree(call.input.deep_mode,
                                                            call.input.listing)],
                    !.pc = "returned"]
    /\ UNCHANGED <<cache, store, request_vars, adapter_vars, observed,
                   harness_vars, peer_vars, config_vars, task_vars, url, batch>>

NextTree == FetchTree

SpecTree == InitTree /\ [][NextTree]_vars

----------------------------------------------------------------------------
(* Cache paths of identities whose author or name holds an underscore *)

\* longest author and longest name of these identities
MaxNameLen == 2

\* characters of their authors and names: two letters and the underscore
KeyChars == {"a", "b", "_"}

KeyNames == UNION {[1..k -> KeyChars] : k \in 1..MaxNameLen}

KeyRepos == [author : KeyNames, name : KeyNames, url : {"url"}]

KeyPaths == {get_cache_path(r) : r \in KeyRepos}

InitKeys ==
    /\ cache = [p \in KeyPaths |-> None]
    /\ pre_cache = cache
    /\ pc = "call"
    /\ IdleRequest
    /\ IdlePeer
    /\ IdleTask
    /\ IdleAdapter
    /\ IdleHarness
    /\ IdleConfig
    /\ url = NoUrl
    /\ batch = NoBatch
    /\ call \in [op : {"get_cached_insight"}, pc : {"put"},
                  input : [stored : KeyRepos, asked : KeyRepos],
                  output : {None}]

\* a generation for the identity `stored` is saved: save_cache(&stored, text)
KeyPut ==
    /\ call.op = "get_cached_insight"
    /\ call.pc = "put"
    /\ cache' = save_cache(cache, call.input.stored, OldInsight, TRUE)
    /\ call' = [call EXCEPT !.pc = "get"]
    /\ UNCHANGED <<store, request_vars, adapter_vars, observed, harness_vars,
                   peer_vars, config_vars, task_vars, url, batch>>

\* the get_cached_insight command for the identity `asked`
KeyGet ==
    /\ call.op = "get_cached_insight"
    /\ call.pc = "get"
    /\ call' = [call EXCEPT
                    !.output = get_cached_insight_internal(cache, call.input.asked),
                    !.pc = "returned"]
    /\ UNCHANGED <<cache, store, request_vars, adapter_vars, observed,
                   harness_vars, peer_vars, config_vars, task_vars, url, batch>>

NextKeys ==
    \/ KeyPut
    \/ KeyGet

SpecKeys == InitKeys /\ [][NextKeys]_vars

----------------------------------------------------------------------------
(* Vocabulary of the properties *)

Last(s) == s[Len(s)]

CountOf(s, type) == Cardinality({i \in 1..Len(s) : s[i].type = type})

\* the payload a relayed chunk is expected to become
Forward(chunk) ==
    CASE chunk.type = "Text" -> Token(chunk.data)
      [] chunk.type = "Error" -> PayloadError(chunk.data)
      [] OTHER -> PayloadDone

ForwardAll(chunks) == [i \in 1..Len(chunks) |-> Forward(chunks[i])]

\* the texts of the Text chunks of a chunk sequence, in order
RECURSIVE TextsOf(_)
TextsOf(chunks) ==
    IF chunks = <<>> THEN <<>>
    ELSE IF Head(chunks).type = "Text"
         THEN <<Head(chunks).data>> \o TextsOf(Tail(chunks))
         ELSE TextsOf(Tail(chunks))

RECURSIVE Concat(_)
Concat(texts) == IF texts = <<>> THEN <<>> ELSE Head(texts) \o Concat(Tail(texts))

TokensOf(texts) == [i \in 1..Len(texts) |-> Token(texts[i])]

\* a summarize_repo request has been issued
Summarizing ==
    /\ pc \in {"compose", "resolve", "relay", "save", "returned"}
    /\ mode \notin {"list_models", "test_model_connection"}

\* the request's config id names no stored ModelConfiguration
UnknownConfigId ==
    /\ IsSome(req.model_config_id)
    /\ \A i \in 1..Len(get_all_model_configs(store)) :
          get_all_model_configs(store)[i].id # Unwrap(req.model_config_id)

RequestRecord == cache[get_cache_path(req.repo)]
RequestRecordBefore == pre_cache[get_cache_path(req.repo)]

----------------------------------------------------------------------------
(* Properties *)

\* C1: once summarize_repo has begun streaming from the provider (managed or
\* direct mode) and has returned, the last event its sink received is Done.
C1_DoneIsLastOnEveryStreamingPath ==
    (pc = "returned" /\ mode \in {"managed", "direct"} /\ producer # "none")
        => (sink # <<>> /\ Last(sink) = PayloadDone)

\* C2: a consumer that reads the adapter's channel until it closes has observed
\* exactly one Done chunk, and that Done is the final chunk.
C2_ExactlyOneDoneAndLast ==
    pc = "drained"
        => (CountOf(observed, "Done") = 1 /\ Last(observed) = Done)

\* C3: in managed mode everything taken from the channel is forwarded in order;
\* once an Error has been forwarded it is the last event of the sink, the
\* request has returned the stream failure, and the Insight Cache is exactly
\* what it was before the request, whatever tokens were relayed before it.
C3_ErrorAbortsAndLeavesCache ==
    /\ (mode = "managed" /\ pc = "relay")
          => sink = ForwardAll(SubSeq(sent, 1, Len(sent) - Len(chan)))
    /\ (mode = "managed" /\ CountOf(sink, "Error") > 0)
          => /\ pc = "returned"
             /\ result = "StreamError"
             /\ CountOf(sink, "Error") = 1
             /\ Last(sink).type = "Error"
             /\ sink = ForwardAll(SubSeq(sent, 1, Len(sink)))
             /\ cache = pre_cache

C3_Witness ==
    /\ mode = "managed"
    /\ result = "StreamError"
    /\ Len(sink) >= 3
    /\ sink[1].type = "Token"
    /\ Last(sink).type = "Error"
    /\ IsSome(RequestRecordBefore)
    /\ RequestRecord = RequestRecordBefore

\* C4: in managed mode, whenever Done has been sent to the caller's sink and the
\* accumulated buffer is non-empty, the Insight Cache already holds the buffer
\* for the request's identity.
C4_CommittedBeforeDone ==
    (mode = "managed" /\ CountOf(sink, "Done") > 0 /\ full_insight # <<>>)
        => get_cached_insight_internal(cache, req.repo) = Some(full_insight)

\* C5 as stated: a managed-mode request that streamed tokens t1..tn (n >= 1) and
\* Done and returned Ok, with no failed file write, has sent Token(t1)..Token(tn)
\* then Done, and get_cached_insight returns t1+...+tn.
C5_AlwaysCachedOnSuccess ==
    (mode = "managed" /\ pc = "returned" /\ result = "Ok" /\ fs_write # "err"
        /\ TextsOf(sent) # <<>>)
        => /\ sink = TokensOf(TextsOf(sent)) \o <<PayloadDone>>
           /\ get_cached_insight_internal(cache, req.repo)
                 = Some(Concat(TextsOf(sent)))

\* C5 amended: a managed-mode request that streamed tokens t1..tn and Done and
\* returned Ok has sent Token(t1)..Token(tn) then Done in that order; if the
\* concatenation, trimmed of surrounding whitespace, has at least 10 bytes and
\* the file write did not fail, get_cached_insight returns the concatenation
\* exactly, and otherwise the cache is what it was before the request.
C5_CachedWhenLongEnough ==
    (mode = "managed" /\ pc = "returned" /\ result = "Ok")
        => LET texts == TextsOf(sent)
               full == Concat(texts)
           IN  /\ sink = TokensOf(texts) \o <<PayloadDone>>
               /\ IF Len(Trim(full)) >= MinCacheLen /\ fs_write # "err"
                  THEN get_cached_insight_internal(cache, req.repo) = Some(full)
                  ELSE cache = pre_cache

C5_Witness ==
    /\ mode = "managed"
    /\ pc = "returned"
    /\ result = "Ok"
    /\ ~req.force_refresh
    /\ RequestRecordBefore = None
    /\ sink = <<Token(Hello), Token(World), PayloadDone>>
    /\ get_cached_insight_internal(cache, req.repo) = Some(Hello \o World)

\* C6: a summarize_repo request carrying neither a raw credential nor a config
\* id makes no metadata fetch and no provider call, and when it has returned it
\* has returned the missing-credential failure, whatever the cache and flags.
C6_NoCredentialFailsBeforeAnyNetworkCall ==
    (Summarizing /\ ~IsSome(req.api_key) /\ ~IsSome(req.model_config_id))
        => /\ network_calls = {}
           /\ provider_calls = 0
           /\ (pc = "returned" => result = "MissingCredential")

C8_ForceRefreshBypassesCache ==
    Summarizing
        => /\ req.force_refresh
                 => /\ mode # "cache_hit"
                    /\ (sink # <<>> => provider_calls = 1)
                    /\ (pc = "returned" => network_calls # {})
           /\ (~req.force_refresh /\ IsSome(RequestRecordBefore))
                 => /\ pc = "returned"
                    /\ mode = "cache_hit"
                    /\ result = "Ok"
                    /\ sink = <<Token(Unwrap(RequestRecordBefore)), PayloadDone>>
                    /\ provider = "none"
                    /\ provider_calls = 0
                    /\ network_calls = {}

C8_Witness ==
    /\ Summarizing
    /\ req.force_refresh
    /\ IsSome(RequestRecordBefore)
    /\ pc = "returned"
    /\ result = "Ok"
    /\ Len(sink) >= 2
    /\ sink[1].type = "Token"
    /\ sink[1].data # Unwrap(RequestRecordBefore)

\* C9 as stated: after put(identity, text) with a successful file write, get
\* returns text for every text of at least 10 units, whitespace included.
C9_RoundTripAnyLongText ==
    (h_pc = "done" /\ h_write_ok /\ Len(h_text) >= MinCacheLen)
        => h_got = Some(h_text)

\* C9 amended: after put(identity, text) with a successful file write, get
\* returns text exactly (surrounding whitespace included) for every identity
\* and every text whose length after trimming surrounding whitespace is at
\* least 10 bytes.
C9_RoundTripTrimmedLength ==
    (h_pc = "done" /\ h_write_ok /\ Len(Trim(h_text)) >= MinCacheLen)
        => h_got = Some(h_text)

C9_Witness ==
    /\ h_pc = "done"
    /\ h_write_ok
    /\ Len(Trim(h_text)) >= MinCacheLen
    /\ Head(h_text) = " "
    /\ h_got = Some(h_text)

\* C10: put with empty content or content shorter than 10 units leaves every
\* cache record as it was: get afterwards returns what get returned before
\* (absent, or the old text).
C10_ShortContentRejected ==
    (h_pc \in {"get", "done"} /\ Len(h_text) < MinCacheLen)
        => /\ cache = pre_cache
           /\ (h_pc = "done" => h_got = h_prev)

C10_Witness ==
    /\ h_pc = "done"
    /\ h_write_ok
    /\ Len(h_text) > 0
    /\ Len(h_text) < MinCacheLen
    /\ h_prev = Some(OldInsight)
    /\ h_got = h_prev

\* the characters a cache file name keeps from an author or a name
KeptInKey(c) == IsAlphanumeric(c) \/ c \in {"-", "_"}

\* a name with every other character dropped and case folded
NormalForm(name) ==
    LET kept == SelectSeq(name, KeptInKey)
    IN  [i \in 1..Len(kept) |-> ToLowercase(kept[i])]

\* two identities differ only by letter case or by characters that are not kept
SameNormalForm(r1, r2) ==
    /\ NormalForm(r1.author) = NormalForm(r2.author)
    /\ NormalForm(r1.name) = NormalForm(r2.name)

\* C11 as stated: a text stored under one of ("Foo","Bar"), ("foo","bar") and
\* ("fo-o!","b ar") is the record that get returns for each of the three.
C11_ThreeIdentitiesShareOneRecord ==
    (h_pc = "done" /\ h_write_ok /\ ~rejects_content(h_text)
        /\ h_repo \in {RepoUpper, RepoLower, RepoHyphen})
        => \A r \in {RepoUpper, RepoLower, RepoHyphen} :
              /\ get_cache_path(r) = get_cache_path(h_repo)
              /\ get_cached_insight_internal(cache, r) = Some(h_text)

\* C11 amended: identities that differ only by letter case or by characters
\* other than alphanumerics, '-' and '_' derive the same cache path and read the
\* record stored under any of them: ("Foo","Bar"), ("foo","bar") and
\* ("fo o!","b ar") share one record, while ("fo-o!","b ar") keeps its hyphen,
\* derives another path and its record is not touched by a put under the others.
C11_SameNormalFormSharesRecord ==
    (h_pc = "done" /\ h_write_ok /\ ~rejects_content(h_text))
        => /\ get_cache_path(RepoHyphen) # get_cache_path(RepoLower)
           /\ \A r \in Repos :
                 IF SameNormalForm(r, h_repo)
                 THEN /\ get_cache_path(r) = get_cache_path(h_repo)
                      /\ get_cached_insight_internal(cache, r) = Some(h_text)
                 ELSE get_cached_insight_internal(cache, r)
                         = get_cached_insight_internal(pre_cache, r)

C11_Witness ==
    /\ h_pc = "done"
    /\ h_write_ok
    /\ ~rejects_content(h_text)
    /\ h_repo = RepoUpper
    /\ get_cached_insight_internal(pre_cache, RepoHyphen) = Some(OldInsight)
    /\ get_cached_insight_internal(cache, RepoLower) = Some(h_text)
    /\ get_cached_insight_internal(cache, RepoSpaced) = Some(h_text)
    /\ get_cached_insight_internal(cache, RepoHyphen) = Some(OldInsight)

\* C12: a request carrying a raw credential and no config id leaves the Insight
\* Cache exactly as it was when the request was issued, at every point of the
\* request (cache hit, relayed tokens, stream error, completion), and attempts
\* no file write.
C12_DirectModeNeverWritesCache ==
    (Summarizing /\ IsSome(req.api_key) /\ ~IsSome(req.model_config_id))
        => /\ cache = pre_cache
           /\ fs_write = "none"
           /\ full_insight = <<>>

C12_Witness ==
    /\ mode = "direct"
    /\ pc = "returned"
    /\ result = "Ok"
    /\ sink = <<Token(Hello), Token(World), PayloadDone>>
    /\ RequestRecordBefore = None
    /\ cache = pre_cache

\* C13: a summarize_repo request carrying both a raw credential and a config id
\* is processed in neither mode: it builds no adapter, calls no provider, sends
\* nothing, and when it has returned it has returned the validation failure.
C13_BothSuppliedIsRejected ==
    (Summarizing /\ IsSome(req.api_key) /\ IsSome(req.model_config_id))
        => /\ mode \notin {"managed", "direct"}
           /\ provider = "none"
           /\ provider_calls = 0
           /\ sink = <<>>
           /\ (pc = "returned" => result = "MissingCredential")

\* C14: a GET /models response of the OpenAI adapter whose status is not a
\* success is classified by its status alone: 401 and 403 as authentication
\* failure, 404 as model unavailable, 429 as quota exhausted, any other status
\* of 400..499 as request failure, 500..599 as network failure, and anything
\* else as unknown.
C14_StatusClassification ==
    (mode = "list_models" /\ provider = "OpenAIProvider" /\ IsSome(http_status)
        /\ Unwrap(http_status) \notin 200..299)
        => LET status == Unwrap(http_status)
           IN  /\ status \in {401, 403} => result = "AuthenticationFailed"
               /\ status = 404 => result = "ModelUnavailable"
               /\ status = 429 => result = "InsufficientQuota"
               /\ (status >= 400 /\ status <= 499
                      /\ status \notin {401, 403, 404, 429})
                     => result = "RequestFailed"
               /\ (status >= 500 /\ status <= 599) => result = "NetworkError"
               /\ (status < 400 \/ status > 599) => result = "Unknown"

C14_Witness ==
    /\ mode = "list_models"
    /\ provider = "OpenAIProvider"
    /\ http_status = Some(429)
    /\ result = "InsufficientQuota"

\* the ids of the configurations of a set
IdsOf(config) == {config.model_configs[i].id : i \in 1..Len(config.model_configs)}

\* the active id is absent or is the id of a configuration of the set
ActiveIdValid(config) ==
    \/ config.active_model_config_id = None
    \/ Unwrap(config.active_model_config_id) \in IdsOf(config)

\* C15: at every point of every sequence of startup and commands, the active id
\* of the persisted set is absent or names a configuration of the set; a
\* set-active with an id that is not in the set returns false, saves nothing and
\* leaves the active id alone; a delete of the active configuration leaves no
\* active id.
C15_ActiveIdReferencesExisting ==
    /\ ActiveIdValid(load_config(store))
    /\ (last_op.c.op = "set_active_model_config"
           /\ last_op.c.config_id \notin IdsOf(last_op.before))
          => /\ ~last_op.ret.ok
             /\ ~last_op.saved
             /\ last_op.after = last_op.before
    /\ (last_op.c.op = "delete_model_config"
           /\ last_op.before.active_model_config_id = Some(last_op.c.config_id)
           /\ last_op.c.config_id \in IdsOf(last_op.before))
          => /\ last_op.ret.ok
             /\ last_op.saved
             /\ last_op.after.active_model_config_id = None
             /\ last_op.c.config_id \notin IdsOf(last_op.after)

C15_Witness ==
    /\ last_op.c.op = "delete_model_config"
    /\ last_op.c.config_id = "cfg-anthropic"
    /\ last_op.before.active_model_config_id = Some("cfg-anthropic")
    /\ last_op.saved
    /\ load_config(store).active_model_config_id = None
    /\ IdsOf(load_config(store)) = {"cfg-openai"}

\* C16: no two configurations of the persisted set share an id.
C16_IdsAreUnique ==
    LET configs == load_config(store).model_configs
    IN  \A i \in 1..Len(configs), j \in 1..Len(configs) :
           i # j => configs[i].id # configs[j].id

\* the value a field has after a partial update
Updated(supplied, prior) == IF IsSome(supplied) THEN Unwrap(supplied) ELSE prior

\* C17: update_model_config with an id of the set returns true and saves a set
\* in which the first configuration with that id has every supplied field set
\* to the supplied value, every other field as before, the same id and created
\* timestamp and the current instant as updated timestamp, while every other
\* configuration, the active id, the model-list cache and its expiry are as
\* loaded; with an id that is not in the set it returns false and saves nothing.
C17_UpdateChangesOnlySuppliedFields ==
    last_op.c.op = "update_model_config"
        => LET b == last_op.before
               a == last_op.after
               u == last_op.c.updates
               i == first_with_id(b.model_configs, last_op.c.config_id)
           IN  IF i = 0
               THEN ~last_op.ret.ok /\ ~last_op.saved /\ a = b
               ELSE /\ last_op.ret.ok
                    /\ last_op.saved
                    /\ load_config(store) = a
                    /\ Len(a.model_configs) = Len(b.model_configs)
                    /\ \A j \in 1..Len(b.model_configs) :
                          j # i => a.model_configs[j] = b.model_configs[j]
                    /\ a.model_configs[i].id = b.model_configs[i].id
                    /\ a.model_configs[i].created_at = b.model_configs[i].created_at
                    /\ a.model_configs[i].updated_at = last_op.t
                    /\ a.model_configs[i].name
                          = Updated(u.name, b.model_configs[i].name)
                    /\ a.model_configs[i].provider
                          = Updated(u.provider, b.model_configs[i].provider)
                    /\ a.model_configs[i].api_base_url
                          = Updated(u.api_base_url, b.model_configs[i].api_base_url)
                    /\ a.model_configs[i].api_key
                          = Updated(u.api_key, b.model_configs[i].api_key)
                    /\ a.model_configs[i].default_model
                          = Updated(u.default_model, b.model_configs[i].default_model)
                    /\ a.model_configs[i].enabled
                          = Updated(u.enabled, b.model_configs[i].enabled)
                    /\ a.active_model_config_id = b.active_model_config_id
                    /\ a.model_cache = b.model_cache
                    /\ a.cache_expires_at = b.cache_expires_at

C17_Witness ==
    /\ last_op.c.op = "update_model_config"
    /\ last_op.c.config_id = "cfg-openai"
    /\ last_op.c.updates.name = Some("Renamed")
    /\ last_op.c.updates.api_key = None
    /\ last_op.ret.ok
    /\ last_op.t = 2
    /\ Len(load_config(store).model_configs) = 2
    /\ load_config(store).model_configs[2] = StoredConfigs[2]
    /\ load_config(store).model_configs[1].name = "Renamed"
    /\ load_config(store).model_configs[1].api_key = "sk-key"
    /\ load_config(store).model_configs[1].updated_at = 2
    /\ load_config(store).model_configs[1].created_at = 0
    /\ load_config(store).model_cache["openai"] = Some(ModelList)

\* C18: get_cached_models returns absent for every vendor when no expiry
\* instant is set or the current instant is at or past it, whatever lists are
\* stored; strictly before the expiry instant it returns what is stored for the
\* vendor; it saves nothing.
C18_ExpiredCacheIsAbsent ==
    last_op.c.op = "get_cached_models"
        => LET b == last_op.before
           IN  /\ ~last_op.saved
               /\ IF b.cache_expires_at = None
                     \/ last_op.t >= Unwrap(b.cache_expires_at)
                  THEN last_op.ret.models = None
                  ELSE last_op.ret.models
                          = b.model_cache[cache_key(last_op.c.vendor)]

C18_Witness ==
    /\ last_op.c.op = "get_cached_models"
    /\ last_op.c.vendor = "OpenAI"
    /\ last_op.before.model_cache["openai"] = Some(ModelList)
    /\ last_op.before.cache_expires_at = Some(last_op.t)
    /\ last_op.t = 1
    /\ last_op.ret.models = None

\* the ConfigurationSet that migration builds from a legacy credential
MigratedFrom(api_key, config) ==
    /\ Len(config.model_configs) = 1
    /\ config.model_configs[1].api_key = api_key
    /\ config.model_configs[1].provider = "OpenAI"
    /\ config.model_configs[1].enabled
    /\ config.active_model_config_id = Some(config.model_configs[1].id)
    /\ config.model_cache = EmptyModelCache
    /\ config.cache_expires_at = None

\* C19 as stated: a construction of the facade that finds the legacy key and no
\* new-format key leaves a persisted set of exactly one configuration; any other
\* construction leaves the store as it found it.
C19_MigrationPersistsOneConfiguration ==
    startup.ran
        => IF IsSome(startup.before.openai_api_key)
              /\ ~IsSome(startup.before.app_config)
           THEN /\ IsSome(startup.after.app_config)
                /\ Len(Unwrap(startup.after.app_config).model_configs) = 1
           ELSE startup.after = startup.before

\* C19 amended: a construction of the facade that finds the legacy key and no
\* new-format key persists, when the legacy value is a string, a set of exactly
\* one enabled OpenAI configuration that carries that string as credential and
\* is the active one, and persists nothing when the legacy value is not a
\* string; any other construction, in particular every one that finds the
\* new-format key, leaves the store exactly as it found it; the legacy key is
\* never removed.
C19_MigrationOnceFromStringCredential ==
    startup.ran
        => LET b == startup.before
               a == startup.after
           IN  /\ a.openai_api_key = b.openai_api_key
               /\ IF IsSome(b.openai_api_key) /\ ~IsSome(b.app_config)
                  THEN IF Unwrap(b.openai_api_key).is_str
                       THEN /\ IsSome(a.app_config)
                            /\ MigratedFrom(Unwrap(b.openai_api_key).text,
                                            Unwrap(a.app_config))
                       ELSE a = b
                  ELSE a = b

C19_Witness ==
    /\ startup.ran
    /\ issued = 1
    /\ startup.before = startup.after
    /\ store = startup.after
    /\ store.openai_api_key = Some(JsonString("sk-legacy"))
    /\ IsSome(store.app_config)
    /\ MigratedFrom("sk-legacy", Unwrap(store.app_config))

\* C20: at most one caller is between taking the mutex and returning, and that
\* caller is its holder; the config a command has loaded is still the persisted
\* one when it saves; and the persisted store always equals the store obtained
\* by running the completed commands one after the other in the order of their
\* saves.
C20_CommandsAreSerialized ==
    /\ \A p \in Callers, q \in Callers :
          (p # q /\ cpc[p] # "idle") => cpc[q] = "idle"
    /\ \A p \in Callers : cpc[p] # "idle" => lock = p
    /\ \A p \in Callers : cpc[p] = "loaded" => loaded[p] = load_config(store)
    /\ store = serial

C20_Witness ==
    /\ last_op.p = "c2"
    /\ last_op.c.op = "delete_model_config"
    /\ last_op.c.config_id = "cfg-openai"
    /\ "cfg-new" \in IdsOf(last_op.before)
    /\ startup.after = InitStore
    /\ IdsOf(load_config(store)) = {"cfg-anthropic", "cfg-new"}
    /\ store = serial

\* the request and the peer are managed-mode summaries of one cache path that
\* both found no record when they consulted the cache
BothFoundNoRecord ==
    /\ mode = "managed"
    /\ peer.kind = "summarize_repo"
    /\ get_cache_path(peer.repo) = get_cache_path(req.repo)
    /\ RequestRecordBefore = None
    /\ peer.seen = None

\* the successful writes made by one of the two
WritesBy(by) == SelectSeq(writers, LAMBDA w : w.by = by)

\* C21: whenever the managed-mode request is relaying its provider's stream and
\* a second command (a managed-mode summary of another repository, list_models,
\* test_model_connection or a configuration command) has reached the point where
\* it takes the mutex, it can take it: it does not wait for the stream to end.
C21_PeerProceedsDuringRelay ==
    (mode = "managed" /\ pc = "relay" /\ peer.pc = "lock"
        /\ (peer.kind = "summarize_repo"
               => get_cache_path(peer.repo) # get_cache_path(req.repo)))
        => can_lock(lock)

C23_NoReadAfterFailedSend ==
    IsSome(send_failed_at) => events_read = Unwrap(send_failed_at)

\* the urls of a sequence of identities, in order
UrlsOf(repos) == [i \in 1..Len(repos) |-> repos[i].url]

\* C24: check_insights_batch returns, in input order, the urls of exactly those
\* input identities for which get_cached_insight returns a text, and leaves
\* every cache record as it was.
C24_BatchListsCachedInInputOrder ==
    batch.pc = "returned"
        => /\ batch.exists =
                 UrlsOf(SelectSeq(batch.repos,
                     LAMBDA r : IsSome(get_cached_insight_internal(cache, r))))
           /\ cache = pre_cache

C24_Witness ==
    /\ batch.pc = "returned"
    /\ batch.repos = <<RepoHyphen, RepoUpper, RepoLower>>
    /\ get_cached_insight_internal(cache, RepoHyphen) = None
    /\ get_cached_insight_internal(cache, RepoUpper) = Some(OldInsight)
    /\ batch.exists = <<RepoUpper.url, RepoLower.url>>

\* C25: a managed-mode request whose cache write failed at the end of a
\* generation has sent Done as the last event of its sink and no Error event,
\* has returned Ok, and has left the Insight Cache as it was.
C25_FailedWriteStillSucceeds ==
    (mode = "managed" /\ fs_write = "err")
        => /\ pc = "returned"
           /\ result = "Ok"
           /\ sink # <<>>
           /\ Last(sink) = PayloadDone
           /\ CountOf(sink, "Error") = 0
           /\ cache = pre_cache

C25_Witness ==
    /\ mode = "managed"
    /\ fs_write = "err"
    /\ req.force_refresh
    /\ RequestRecordBefore = Some(OldInsight)
    /\ RequestRecord = Some(OldInsight)
    /\ result = "Ok"
    /\ sink = <<Token(Hello), Token(World), PayloadDone>>

\* the adapters of the vendors without an integration
StubAdapters == {"AnthropicProvider", "GoogleProvider", "AzureOpenAIProvider"}

\* C26: the Anthropic, Google and Azure OpenAI adapters answer chat_completion
\* and test_connection with a configuration error whatever they are given and
\* without an exchange with the vendor; a managed-mode summarize_repo on such a
\* configuration opens no stream, sends nothing, returns that failure as soon
\* as the adapter is invoked and leaves the Insight Cache as it was.
C26_StubVendorsFailWithConfigurationError ==
    /\ \A v \in {"Anthropic", "Google", "AzureOpenAI"} :
          /\ create_provider([provider |-> v]) \in StubAdapters
          /\ chat_completion(create_provider([provider |-> v]))
                = "ConfigurationError"
          /\ \A status \in HttpOutcomes :
                test_connection(create_provider([provider |-> v]), status)
                   = "ConfigurationError"
    /\ (mode = "managed" /\ pc = "returned" /\ IsSome(req.model_config_id)
           /\ Unwrap(req.model_config_id) \in StubConfigIds
           /\ ~IsSome(check_cache(pre_cache, req.repo, req.force_refresh)))
          => /\ provider \in StubAdapters
             /\ provider_calls = 1
    /\ (mode = "managed" /\ provider \in StubAdapters)
          => /\ pc = "returned"
             /\ result = "ConfigurationError"
             /\ producer = "none"
             /\ sink = <<>>
             /\ fs_write = "none"
             /\ cache = pre_cache
             /\ lock = "free"
    /\ (mode = "test_model_connection" /\ provider \in StubAdapters)
          => /\ result = "ConfigurationError"
             /\ http_status = None

C26_Witness ==
    /\ mode = "managed"
    /\ provider = "GoogleProvider"
    /\ result = "ConfigurationError"
    /\ req.force_refresh
    /\ network_calls # {}
    /\ RequestRecordBefore = Some(OldInsight)
    /\ RequestRecord = Some(OldInsight)

\* a managed-mode request with force_refresh has returned Ok
RefreshSucceeded ==
    /\ mode = "managed"
    /\ req.force_refresh
    /\ pc = "returned"
    /\ result = "Ok"

\* no record that existed when the request was issued has been removed
NoRecordRemoved == \A path \in CachePaths : IsSome(pre_cache[path]) => IsSome(cache[path])

\* C27 as stated: after a managed-mode request with force_refresh has returned
\* Ok, the record of its identity is the text it generated; no record is ever
\* removed.
C27_RefreshAlwaysReplaces ==
    /\ RefreshSucceeded => RequestRecord = Some(Concat(TextsOf(sent)))
    /\ NoRecordRemoved

\* C27 amended: after a managed-mode request with force_refresh has returned
\* Ok, the record of its identity is the text it generated if that text,
\* trimmed of surrounding whitespace, has at least 10 bytes and the file write
\* did not fail, and otherwise the record is what it was before the request
\* (the earlier text, or none); every other record is untouched, and no
\* record is ever removed.
C27_RefreshReplacesWhenLongEnough ==
    /\ RefreshSucceeded
          => LET full == Concat(TextsOf(sent))
             IN  /\ RequestRecord =
                       IF Len(Trim(full)) >= MinCacheLen /\ fs_write # "err"
                       THEN Some(full)
                       ELSE RequestRecordBefore
                 /\ \A path \in CachePaths :
                       path # get_cache_path(req.repo)
                          => cache[path] = pre_cache[path]
    /\ NoRecordRemoved

C27_Witness ==
    /\ RefreshSucceeded
    /\ RequestRecordBefore = Some(OldInsight)
    /\ Concat(TextsOf(sent)) = World \o Hello
    /\ RequestRecord = Some(World \o Hello)
    /\ fs_write = "ok"

\* C28: on the sink of every summarize_repo request at most one Done is sent
\* and nothing is sent after it; a cache hit sends the record then Done; in
\* managed and direct mode the sink is, event for event, what the adapter put
\* into its channel, in the order it put it there, up to the first Done or
\* Error.
C28_DoneIsTerminal ==
    Summarizing
        => /\ CountOf(sink, "Done") <= 1
           /\ \A i \in 1..Len(sink) : sink[i].type = "Done" => i = Len(sink)
           /\ mode = "cache_hit"
                 => sink = <<Token(Unwrap(RequestRecordBefore)), PayloadDone>>
           /\ mode \in {"managed", "direct"}
                 => /\ Len(sink) <= Len(sent)
                    /\ sink = ForwardAll(SubSeq(sent, 1, Len(sink)))
                    /\ \A i \in 1..(Len(sink) - 1) : sink[i].type = "Token"

C28_Witness ==
    /\ mode = "direct"
    /\ pc = "returned"
    /\ producer = "exited"
    /\ events_read = 3
    /\ send_failed_at = Some(3)
    /\ sent = <<Text(World), Text(Hello), Done>>
    /\ sink = <<Token(World), Token(Hello), PayloadDone>>

\* the longest prefix of a text that does not end with '/'
WithoutTrailingSlashes(s) ==
    LET k == CHOOSE n \in 0..Len(s) :
                /\ n = 0 \/ s[n] # "/"
                /\ \A i \in (n + 1)..Len(s) : s[i] = "/"
    IN  SubSeq(s, 1, k)

\* C29: build_endpoint_url returns the base URL without its trailing '/'
\* characters, followed by the path; the base URL with one more trailing slash,
\* or with none, yields the same endpoint; and the last character taken from
\* the base URL is never a '/', so the join holds no doubled '/'.
C29_EndpointJoinsTrimmedBaseAndPath ==
    url.pc = "built"
        => LET stripped == WithoutTrailingSlashes(url.base)
           IN  /\ url.endpoint = stripped \o url.path
               /\ build_endpoint_url(url.base \o <<"/">>, url.path) = url.endpoint
               /\ build_endpoint_url(stripped, url.path) = url.endpoint
               /\ stripped = <<>> \/ url.endpoint[Len(stripped)] # "/"

C29_Witness ==
    /\ url.pc = "built"
    /\ url.base = <<"a", "/", "a", "/">>
    /\ url.path = <<"/", "m">>
    /\ url.endpoint = <<"a", "/", "a", "/", "m">>

\* the channel is full and its receiver alive
ChannelFull == Len(chan) = ChannelCapacity /\ rx_open

\* C30: the channel never holds more than 100 chunks; while the receiver is
\* open, the chunks sent are exactly those the consumer has received followed
\* by those in the channel, in order (none dropped, none overwritten), and each
\* event read has been sent; and no send completes in a step taken from a state
\* where the channel is full and the receiver open: the producer goes on only
\* after the consumer has received a chunk or dropped the receiver.
C30_BoundedChannelBackpressure ==
    /\ [](/\ Len(chan) <= ChannelCapacity
          /\ rx_open => /\ sent = observed \o chan
                        /\ events_read = CountOf(sent, "Text"))
    /\ [][ChannelFull => (sent' = sent /\ events_read' = events_read)]_vars

C30_Witness ==
    /\ ChannelFull
    /\ producer = "running"
    /\ Len(observed) = 2
    /\ Len(sent) = MaxBurst
    /\ events_read = MaxBurst

----------------------------------------------------------------------------
\* the inbound event ends the stream: the terminator, a frame that is not
\* JSON, or an error of the event source
EndsStream(event) ==
    \/ event.kind = "Err"
    \/ event.kind = "Message" /\ event.data.form \in {"[DONE]", "malformed"}

\* the inbound event is a malformed frame or an error of the event source
IsFaulty(event) ==
    \/ event.kind = "Err"
    \/ event.kind = "Message" /\ event.data.form = "malformed"

\* the non-empty content deltas of the events before the first one that ends
\* the stream, in arrival order
RECURSIVE DeltasBeforeEnd(_)
DeltasBeforeEnd(events) ==
    IF events = <<>> THEN <<>>
    ELSE IF EndsStream(Head(events)) THEN <<>>
    ELSE IF /\ Head(events).kind = "Message"
            /\ Head(events).data.content \notin {None, Some(<<>>)}
         THEN <<Unwrap(Head(events).data.content)>> \o DeltasBeforeEnd(Tail(events))
         ELSE DeltasBeforeEnd(Tail(events))

IsPrefix(s, t) == Len(s) <= Len(t) /\ s = SubSeq(t, 1, Len(s))

\* C31: the Text chunks the adapter has put into the channel are exactly the
\* non-empty content deltas of the inbound events read so far that precede the
\* terminator, the first malformed frame or the first source error, in arrival
\* order; once the consumer has dropped the receiver nothing more is emitted,
\* and what was emitted is the beginning of that sequence.
C31_TextsAreTheNonEmptyDeltasInOrder ==
    producer # "none" /\ pc \in {"drain", "drained", "dropped"} =>
        /\ IsPrefix(TextsOf(sent), DeltasBeforeEnd(inbound))
        /\ ~IsSome(send_failed_at) => TextsOf(sent) = DeltasBeforeEnd(inbound)

\* three events were read: a delta, an empty delta, a delta; two were emitted
C31_Witness ==
    /\ pc = "drain"
    /\ rx_open
    /\ inbound = <<Message(Json(Some(Hello))), Message(Json(Some(<<>>))),
                   Message(Json(Some(World)))>>
    /\ sent = <<Text(Hello), Text(World)>>

\* positions of the Error chunks in a chunk sequence
ErrorsAt(chunks) == {i \in 1..Len(chunks) : chunks[i].type = "Error"}

\* C32: when an inbound event is a malformed frame or an error of the event
\* source, it is the last event the producer reads, the adapter puts exactly
\* one Error chunk into the channel (none can be put once the consumer has
\* dropped the receiver), and no Text chunk follows an Error chunk.
C32_FaultyEventYieldsOneErrorAndStops ==
    /\ \A i \in 1..Len(inbound) :
          IsFaulty(inbound[i]) =>
              /\ i = Len(inbound)
              /\ events_read = i
              /\ producer # "running"
              /\ Cardinality(ErrorsAt(sent)) <= 1
              /\ rx_open => Cardinality(ErrorsAt(sent)) = 1
    /\ \A i \in ErrorsAt(sent) :
          /\ IsFaulty(Last(inbound))
          /\ \A j \in (i + 1)..Len(sent) : sent[j].type # "Text"

\* a delta, then a malformed frame: the task has ended after one Error
C32_Witness ==
    /\ producer = "exited"
    /\ rx_open
    /\ inbound = <<Message(Json(Some(Hello))), Message(Malformed)>>
    /\ sent = <<Text(Hello), Error(ParseErrorText), Done>>

\* C33: on a DeepSeek or Custom configuration, chat_completion and
\* test_connection return what the OpenAI adapter built from the same
\* configuration returns, and list_models returns that adapter's descriptors
\* with the vendor tag replaced, or its error when it fails.
C33_CompatibleAdaptersMatchReference ==
    call.pc = "returned" /\ call.op \in ProviderOps =>
        IF call.op = "list_models" /\ call.output.reference.ok
        THEN /\ call.output.adapter.ok
             /\ call.output.adapter.value =
                    [i \in 1..Len(call.output.reference.value) |->
                        [call.output.reference.value[i] EXCEPT
                            !.provider = call.input.config.provider]]
        ELSE call.output.adapter = call.output.reference

Min(a, b) == IF a < b THEN a ELSE b

\* C34: for a listing of n entries the deep-mode context holds the lines of
\* the first min(n, 50) entries in their order, followed by the truncation
\* marker if and only if n > 50; in quick mode no listing is included.
C34_TreeCappedMarkerIffOmitted ==
    call.pc = "returned" /\ call.op = "fetch_tree" =>
        IF call.input.deep_mode /\ IsSome(call.input.listing)
        THEN LET items == Unwrap(call.input.listing)
                 n == Len(items)
                 shown == [i \in 1..Min(n, 50) |->
                             [kind |-> IF items[i].type = "dir" THEN "[DIR]"
                                       ELSE "[FILE]",
                              name |-> items[i].name]]
             IN  call.output.tree =
                    Some(IF n > 50 THEN Append(shown, TreeMarker) ELSE shown)
        ELSE call.output.tree = None

\* the sink of a generation that reached Done: tokens only, then Done
ReachedDone(events) ==
    /\ events # <<>>
    /\ Last(events) = PayloadDone
    /\ \A i \in 1..(Len(events) - 1) : events[i].type = "Token"

\* the concatenated text of the tokens a sink received
TokenText(events) ==
    Concat([i \in 1..(Len(events) - 1) |-> events[i].data])

\* the write was made by a managed-mode generation for the path that reached
\* Done, and its text is the whole token text of that generation
WholeGeneration(w) ==
    IF w.by = "request"
    THEN /\ mode = "managed"
         /\ get_cache_path(req.repo) = w.path
         /\ ReachedDone(sink)
         /\ w.text = TokenText(sink)
         /\ w.text = Concat(TextsOf(sent))
         /\ w.text = Concat(DeltasBeforeEnd(inbound))
    ELSE /\ peer.kind = "summarize_repo"
         /\ get_cache_path(peer.repo) = w.path
         /\ ReachedDone(peer.sink)
         /\ w.text = TokenText(peer.sink)

\* positions of the successful writes to a path
WritesTo(path) == {i \in 1..Len(writers) : writers[i].path = path}

\* C35: with two requests side by side and streams that may fail midway, every
\* cache record is absent or is exactly the whole token text of one
\* managed-mode generation for that path that reached Done (the one written
\* last); a generation that ended in Error writes nothing.
C35_RecordIsOneWholeGeneration ==
    /\ \A path \in CachePaths :
          IF WritesTo(path) = {} THEN cache[path] = None
          ELSE LET last == CHOOSE i \in WritesTo(path) :
                              \A j \in WritesTo(path) : j <= i
               IN  cache[path] = Some(writers[last].text)
    /\ \A i \in 1..Len(writers) : WholeGeneration(writers[i])
    /\ result = "StreamError" => WritesBy("request") = <<>>
    /\ peer.result = "StreamError" => WritesBy("peer") = <<>>

\* the request cached its two tokens; the peer, for the same path, received
\* the same two tokens and then an Error, and the record is the request's
C35_Witness ==
    /\ BothFoundNoRecord
    /\ pc = "returned"
    /\ result = "Ok"
    /\ peer.pc = "returned"
    /\ peer.result = "StreamError"
    /\ peer.full_insight = World \o Hello
    /\ writers = <<[by |-> "request", path |-> get_cache_path(req.repo),
                    text |-> Hello \o World]>>
    /\ RequestRecord = Some(Hello \o World)

\* C36: two identities derive the same cache path only if their normalized
\* authors are equal and their normalized names are equal, so that
\* get_cached_insight for an identity returns nothing after an insight was
\* stored for an identity with another normalized author or name.
C36_SharedPathOnlyForSameNormalForm ==
    call.op = "get_cached_insight" /\ call.pc = "returned" =>
        /\ get_cache_path(call.input.stored) = get_cache_path(call.input.asked)
              => SameNormalForm(call.input.stored, call.input.asked)
        /\ ~SameNormalForm(call.input.stored, call.input.asked)
              => call.output = None

\* C37: a list that get_cached_models(vendor) returns was stored by an
\* update_model_cache for that vendor whose own window, its instant plus its
\* cache_hours, has not passed at the instant of the get: a list whose window
\* has passed is not returned again unless it is stored again.
C37_ListServedWithinItsOwnWindow ==
    last_op.c.op = "get_cached_models" /\ IsSome(last_op.ret.models) =>
        LET window == windows[cache_key(last_op.c.vendor)]
        IN  IsSome(window) /\ last_op.t < Unwrap(window)

\* the stored configuration the command names is enabled
NamesEnabledConfig ==
    /\ IsSome(req.model_config_id)
    /\ \E i \in 1..Len(load_config(store).model_configs) :
          /\ load_config(store).model_configs[i].id = Unwrap(req.model_config_id)
          /\ load_config(store).model_configs[i].enabled

\* C38: when managed-mode summarize_repo, list_models or test_model_connection
\* has called a provider, the stored configuration it named is enabled.
C38_ProviderCalledOnlyForEnabledConfig ==
    (mode \in {"managed", "list_models", "test_model_connection"}
        /\ provider_calls > 0)
        => NamesEnabledConfig

\* the kinds of failure list_models reports other than authentication failure
OtherFailures ==
    {"InsufficientQuota", "ModelUnavailable", "RequestFailed", "NetworkError",
     "ParseError", "Unknown"}

\* C39: test_connection of the OpenAI adapter succeeds exactly when list_models
\* on the same exchange succeeds; an authentication failure of list_models is
\* returned as it is, and a failure of any other kind (quota, model
\* unavailable, request, network, parse, unknown) as a configuration error.
C39_ConnectionTestFollowsListModels ==
    call.op = "openai_test_connection" /\ call.pc = "returned" =>
        LET listed == call.output.list_models
            tested == call.output.test_connection
        IN  /\ tested.ok = listed.ok
            /\ ~listed.ok =>
                  /\ listed.value \in OtherFailures \cup {"AuthenticationFailed"}
                  /\ tested.value = IF listed.value = "AuthenticationFailed"
                                    THEN "AuthenticationFailed"
                                    ELSE "ConfigurationError"

\* a quota failure of list_models has been turned into a configuration error
C39_Witness ==
    /\ call.op = "openai_test_connection"
    /\ call.pc = "returned"
    /\ call.input.transport = "ok"
    /\ call.input.status = 429
    /\ call.output.list_models = Err("InsufficientQuota")
    /\ call.output.test_connection = Err("ConfigurationError")

\* C40: under fair scheduling of the producing task and of its consumer, a
\* producing task that was started terminates, whether the consumer keeps
\* receiving until the channel closes, stops at the first Done or Error (the
\* summarize_repo request), or has dropped the receiver; a send on a full
\* channel completes in the end; and a summarize_repo that was invoked returns.
C40_ProducerTerminatesAndRequestReturns ==
    /\ (producer \in {"running", "after_loop"}) ~> (producer = "exited")
    /\ (producer \in {"running", "after_loop"} /\ rx_open
            /\ Len(chan) = ChannelCapacity)
          ~> (Len(chan) < ChannelCapacity \/ ~rx_open)
    /\ (pc \in {"compose", "resolve", "relay", "save"}) ~> (pc = "returned")

\* the producing task has ended after the consumer dropped the receiver on a
\* full channel, with events of the source still to come
C40_Witness ==
    /\ producer = "exited"
    /\ source_len = MaxBurst
    /\ ~rx_open
    /\ IsSome(send_failed_at)
    /\ Len(sent) >= ChannelCapacity

====
